---------------------------- MODULE Spec2Model ----------------------------
(***************************************************************************)
(* RFQSettlement: atomic same-chain swaps, native escrow, and the          *)
(* cross-chain deposit / settlement protocol over a Wormhole-style relay.  *)
(*                                                                         *)
(* Two deployments of the contract (chains 1 and 2) share one relay.       *)
(* Every entry point is an operator from the chain's state before the call *)
(* to a result [err, st, events]; a call whose result carries an error     *)
(* reverts, i.e. the chain keeps the state it had before the call.         *)
(* Amounts are counted in units of 0.01 ether / one token unit.            *)
(***************************************************************************)
EXTENDS Integers, Sequences, FiniteSets, TLC

(***************************************************************************)
(* Bounds of the model                                                     *)
(***************************************************************************)
\* native coins and tokens every user starts with, on each chain
InitialFunds == 4
\* cross-chain deposits initiated over both chains together
MaxRfqs == 1
\* distinct delivery hashes the relay uses
MaxHashes == 2
\* distinct successful native-escrow calls (depositForRFQ, withdrawDeposit, execute)
MaxEscrowCalls == 1
\* successful calls in a run of same-chain trades
MaxLocalCalls == 2
MaxInitiations == 2

(***************************************************************************)
(* Program constants                                                       *)
(***************************************************************************)
\* uint256 public constant MINIMUM_EXPIRY_DURATION = 15 minutes (in seconds)
MINIMUM_EXPIRY_DURATION == 900
\* MockWormholeRelayer.BASE_DELIVERY_PRICE = 0.01 ether (one unit)
BASE_DELIVERY_PRICE == 1
\* enum MessageType
DEPOSIT_NOTIFICATION == 0
SETTLEMENT_CONFIRMATION == 1

\* the sentinel address of the native coin
ETH == "0xEeee"
\* address(0)
ZERO == "0x0"
\* the two ERC20 tokens of the test set-up
BaseTok == "BASE"
QuoteTok == "QUOTE"
Tokens == {BaseTok, QuoteTok}

Chains == {1, 2}
Other(c) == 3 - c
\* address of the RFQSettlement deployment on chain c
Settlement(c) == IF c = 1 THEN "settlement1" ELSE "settlement2"
\* the Wormhole relayer the contracts were constructed with
Relayer == "relayer"
\* the deployer, Ownable's owner
Owner == "owner"
\* externally owned accounts
Users == {"alice", "bob", "mallory"}
\* a contract whose receive() reverts (MaliciousReceiver)
Rejector == "rejector"
\* accounts that approved the settlement contract as spender of their tokens
Approved == {"alice", "bob", Rejector}

Hashes == 1..MaxHashes

(***************************************************************************)
(* Mappings with Solidity's zero default                                   *)
(***************************************************************************)
Get(f, k) == IF k \in DOMAIN f THEN f[k] ELSE 0

Put(f, k, v) ==
    IF v = 0 THEN [x \in DOMAIN f \ {k} |-> f[x]]
    ELSE [x \in DOMAIN f \cup {k} |-> IF x = k THEN v ELSE f[x]]

Empty == [x \in {} |-> 0]

\* struct CrossChainDeposit, all fields zero: what an unset mapping entry reads as
NoDeposit ==
    [creator |-> ZERO, baseToken |-> ZERO, quoteToken |-> ZERO, baseAmount |-> 0,
     quoteAmount |-> 0, sourceChainId |-> 0, destChainId |-> 0, expiryTimestamp |-> 0,
     settled |-> FALSE, acceptorOnSourceChain |-> ZERO, quoteTokenRecipient |-> ZERO]

DepositOf(deps, id) == IF id \in DOMAIN deps THEN deps[id] ELSE NoDeposit

SetDeposit(deps, id, d) == [x \in DOMAIN deps \cup {id} |-> IF x = id THEN d ELSE deps[x]]

\* keccak256(abi.encodePacked(chainid, destChainId, sender, nonce, timestamp)):
\* injective on its input tuple
\* an id derivation that leaves the nonce out
Keccak_noNonce(chainid, dest, sender, nonce, timestamp) == <<chainid, dest, sender, 0, timestamp>>

Keccak(chainid, dest, sender, nonce, timestamp) == <<chainid, dest, sender, nonce, timestamp>>

\* an rfqId a caller makes up for a same-chain trade
LocalId == <<0, 0, "local", 0, 0>>

(***************************************************************************)
(* Results of a call                                                       *)
(***************************************************************************)
Ok(st, evs) == [err |-> "OK", st |-> st, events |-> evs]
Fail(e, st) == [err |-> e, st |-> st, events |-> <<>>]
IsOk(r) == r.err = "OK"

\* the native value attached to a call moves from the caller to the contract
\* before the function body runs
Payable(st, msg) ==
    [st EXCEPT !.balance = [a \in DOMAIN st.balance |->
        IF a = msg.sender /\ a = st.this THEN st.balance[a]
        ELSE IF a = msg.sender THEN st.balance[a] - msg.value
        ELSE IF a = st.this THEN st.balance[a] + msg.value
        ELSE st.balance[a]]]

(***************************************************************************)
(* ERC20 (SafeERC20 over the token contract)                               *)
(***************************************************************************)
MoveToken(tb, token, from, to, amount) ==
    [tb EXCEPT ![token] = [a \in DOMAIN tb[token] |->
        IF a = from /\ a = to THEN tb[token][a]
        ELSE IF a = from THEN tb[token][a] - amount
        ELSE IF a = to THEN tb[token][a] + amount
        ELSE tb[token][a]]]

\* IERC20(token).safeTransferFrom(from, to, amount), the contract being the spender
safeTransferFrom(st, token, from, to, amount) ==
    IF token \notin Tokens THEN Fail("SafeERC20FailedOperation", st)
    ELSE IF from \notin DOMAIN st.tokenBalance[token] \/ to \notin DOMAIN st.tokenBalance[token]
        THEN Fail("SafeERC20FailedOperation", st)
    ELSE IF from \notin Approved /\ amount > 0 THEN Fail("ERC20InsufficientAllowance", st)
    ELSE IF st.tokenBalance[token][from] < amount THEN Fail("ERC20InsufficientBalance", st)
    ELSE Ok([st EXCEPT !.tokenBalance = MoveToken(st.tokenBalance, token, from, to, amount),
                       !.transfers = Append(@, [asset |-> token, from |-> from, to |-> to,
                                                amount |-> amount])], <<>>)

\* IERC20(token).safeTransfer(to, amount): out of the contract's own balance
safeTransfer(st, token, to, amount) ==
    IF token \notin Tokens THEN Fail("SafeERC20FailedOperation", st)
    ELSE IF to \notin DOMAIN st.tokenBalance[token] THEN Fail("SafeERC20FailedOperation", st)
    ELSE IF st.tokenBalance[token][st.this] < amount THEN Fail("ERC20InsufficientBalance", st)
    ELSE Ok([st EXCEPT !.tokenBalance = MoveToken(st.tokenBalance, token, st.this, to, amount),
                       !.transfers = Append(@, [asset |-> token, from |-> st.this, to |-> to,
                                                amount |-> amount])], <<>>)

(***************************************************************************)
(* TokenTransfer library                                                   *)
(***************************************************************************)
\* recipient.call{value: amount}(""): fails when the contract lacks the value or
\* the recipient's receive() reverts
CallWithValue(st, recipient, amount) ==
    IF st.balance[st.this] < amount \/ recipient = Rejector \/ recipient \notin DOMAIN st.balance
    THEN [success |-> FALSE, st |-> st]
    ELSE [success |-> TRUE,
          st |-> [st EXCEPT !.balance = [a \in DOMAIN st.balance |->
                    IF a = st.this /\ a = recipient THEN st.balance[a]
                    ELSE IF a = st.this THEN st.balance[a] - amount
                    ELSE IF a = recipient THEN st.balance[a] + amount
                    ELSE st.balance[a]],
                  !.transfers = Append(@, [asset |-> ETH, from |-> st.this,
                                           to |-> recipient, amount |-> amount])]]

\* a native payment whose outcome nobody looks at
sendETH_unchecked(st, recipient, amount) ==
    Ok(CallWithValue(st, recipient, amount).st, <<>>)

sendETH(st, recipient, amount) ==
    LET c == CallWithValue(st, recipient, amount)
    IN  IF ~c.success THEN Fail("ETHTransferFailed", st) ELSE Ok(c.st, <<>>)

\* a lock that does not compare the attached value with the amount
lockTokens_unchecked(st, msg, token, from, amount, rfqId) ==
    IF token = ETH
    THEN Ok([st EXCEPT !.ethDeposits = Put(st.ethDeposits, rfqId, amount)], <<>>)
    ELSE safeTransferFrom(st, token, from, st.this, amount)

lockTokens(st, msg, token, from, amount, rfqId) ==
    IF token = ETH
    THEN IF msg.value < amount THEN Fail("InvalidDepositAmount", st)
         ELSE Ok([st EXCEPT !.ethDeposits = Put(st.ethDeposits, rfqId, amount)], <<>>)
    ELSE safeTransferFrom(st, token, from, st.this, amount)

\* a release that does not look at the ledger first
unlockETH_unchecked(st, rfqId, recipient, amount) ==
    sendETH([st EXCEPT !.ethDeposits =
                Put(st.ethDeposits, rfqId, Get(st.ethDeposits, rfqId) - amount)],
            recipient, amount)

\* a release that pays without debiting the ledger
unlockETH_keepLedger(st, rfqId, recipient, amount) ==
    IF Get(st.ethDeposits, rfqId) < amount THEN Fail("InsufficientETHDeposit", st)
    ELSE sendETH(st, recipient, amount)

unlockETH(st, rfqId, recipient, amount) ==
    IF Get(st.ethDeposits, rfqId) < amount THEN Fail("InsufficientETHDeposit", st)
    ELSE sendETH([st EXCEPT !.ethDeposits =
                    Put(st.ethDeposits, rfqId, Get(st.ethDeposits, rfqId) - amount)],
                 recipient, amount)

(***************************************************************************)
(* DepositManager library                                                  *)
(***************************************************************************)
\* a deposit that adds to what the entry already holds
createDeposit_accumulate(st, msg, rfqId) ==
    IF msg.value = 0 THEN Fail("InvalidDepositAmount", st)
    ELSE Ok([st EXCEPT !.ethDeposits =
                Put(st.ethDeposits, rfqId, Get(st.ethDeposits, rfqId) + msg.value)], <<>>)

createDeposit(st, msg, rfqId) ==
    IF msg.value = 0 THEN Fail("InvalidDepositAmount", st)
    ELSE Ok([st EXCEPT !.ethDeposits = Put(st.ethDeposits, rfqId, msg.value)], <<>>)

\* a withdrawal that pays out and leaves the entry in place
DepositManager_withdrawDeposit_keepEntry(st, msg, rfqId) ==
    LET amount == Get(st.ethDeposits, rfqId)
        c == CallWithValue(st, msg.sender, amount)
    IN  IF amount = 0 THEN Fail("NoDepositFound", st)
        ELSE IF ~c.success THEN Fail("WithdrawalFailed", st)
        ELSE [err |-> "OK", st |-> c.st, events |-> <<>>, amount |-> amount]

DepositManager_withdrawDeposit(st, msg, rfqId) ==
    LET amount == Get(st.ethDeposits, rfqId)
        cleared == [st EXCEPT !.ethDeposits = Put(st.ethDeposits, rfqId, 0)]
        c == CallWithValue(cleared, msg.sender, amount)
    IN  IF amount = 0 THEN Fail("NoDepositFound", st)
        ELSE IF ~c.success THEN Fail("WithdrawalFailed", cleared)
        ELSE [err |-> "OK", st |-> c.st, events |-> <<>>, amount |-> amount]

(***************************************************************************)
(* RFQValidation library                                                   *)
(***************************************************************************)
validateTokenAddresses(baseToken, quoteToken) == baseToken # ZERO /\ quoteToken # ZERO
validateAmounts(baseAmount, quoteAmount) == baseAmount > 0 /\ quoteAmount > 0
validateCreatorAddress(creator) == creator # ZERO

\* a validation that looks at the creator before the amounts
validateExecuteParams_creatorFirst(creator, baseToken, quoteToken, baseAmount, quoteAmount) ==
    IF ~validateTokenAddresses(baseToken, quoteToken) THEN "Invalid token address"
    ELSE IF ~validateCreatorAddress(creator) THEN "Invalid creator address"
    ELSE IF ~validateAmounts(baseAmount, quoteAmount) THEN "Invalid amount"
    ELSE "OK"

\* the error of the first failing check, "OK" when all pass
validateExecuteParams(creator, baseToken, quoteToken, baseAmount, quoteAmount) ==
    IF ~validateTokenAddresses(baseToken, quoteToken) THEN "Invalid token address"
    ELSE IF ~validateAmounts(baseAmount, quoteAmount) THEN "Invalid amount"
    ELSE IF ~validateCreatorAddress(creator) THEN "Invalid creator address"
    ELSE "OK"

(***************************************************************************)
(* RFQSettlement: same-chain entry points                                  *)
(***************************************************************************)
\* a value check that lets an overpayment through
ValidateMsgValue_atLeast(msg, quoteToken, quoteAmount) ==
    IF quoteToken = ETH
    THEN IF msg.value < quoteAmount THEN "ETHAmountMismatch" ELSE "OK"
    ELSE IF msg.value > 0 THEN "UnexpectedETHSent" ELSE "OK"

ValidateMsgValue(msg, quoteToken, quoteAmount) ==
    IF quoteToken = ETH
    THEN IF msg.value # quoteAmount THEN "ETHAmountMismatch" ELSE "OK"
    ELSE IF msg.value > 0 THEN "UnexpectedETHSent" ELSE "OK"

TransferBaseToken(st, rfqId, creator, acceptor, baseToken, baseAmount) ==
    IF baseToken = ETH THEN unlockETH(st, rfqId, acceptor, baseAmount)
    ELSE safeTransferFrom(st, baseToken, creator, acceptor, baseAmount)

TransferQuoteToken(st, acceptor, creator, quoteToken, quoteAmount) ==
    IF quoteToken = ETH THEN sendETH(st, creator, quoteAmount)
    ELSE safeTransferFrom(st, quoteToken, acceptor, creator, quoteAmount)

depositForRFQ(st0, msg, rfqId) ==
    LET st == Payable(st0, msg)
        r == createDeposit(st, msg, rfqId)
    IN  IF ~IsOk(r) THEN r
        ELSE Ok(r.st, <<[name |-> "ETHDeposited", rfqId |-> rfqId,
                         creator |-> msg.sender, amount |-> msg.value]>>)

withdrawDeposit(st, msg, rfqId) ==
    LET r == DepositManager_withdrawDeposit(st, msg, rfqId)
    IN  IF ~IsOk(r) THEN r
        ELSE Ok(r.st, <<[name |-> "ETHWithdrawn", rfqId |-> rfqId,
                         creator |-> msg.sender, amount |-> r.amount]>>)

execute(st0, msg, rfqId, creator, baseToken, quoteToken, baseAmount, quoteAmount) ==
    LET st == Payable(st0, msg)
        v1 == validateExecuteParams(creator, baseToken, quoteToken, baseAmount, quoteAmount)
        v2 == ValidateMsgValue(msg, quoteToken, quoteAmount)
        acceptor == msg.sender
        b == TransferBaseToken(st, rfqId, creator, acceptor, baseToken, baseAmount)
        q == TransferQuoteToken(b.st, acceptor, creator, quoteToken, quoteAmount)
    IN  IF v1 # "OK" THEN Fail(v1, st)
        ELSE IF v2 # "OK" THEN Fail(v2, st)
        ELSE IF ~IsOk(b) THEN b
        ELSE IF ~IsOk(q) THEN q
        ELSE Ok(q.st, <<[name |-> "TradeExecuted", rfqId |-> rfqId, creator |-> creator,
                         acceptor |-> acceptor, baseToken |-> baseToken,
                         quoteToken |-> quoteToken, baseAmount |-> baseAmount,
                         quoteAmount |-> quoteAmount]>>)

(***************************************************************************)
(* WormholeCodec library: abi.encode lays the fields out in order, and     *)
(* abi.decode reads them back by position                                  *)
(***************************************************************************)
\* an encoding that writes the two amounts in each other's place
encodeDepositNotification_swapped(p) ==
    <<DEPOSIT_NOTIFICATION, p.rfqId, p.creator, p.baseToken, p.quoteToken, p.quoteAmount,
      p.baseAmount, p.expiryTimestamp, p.acceptorOnSourceChain, p.quoteTokenRecipient>>

encodeDepositNotification(p) ==
    <<DEPOSIT_NOTIFICATION, p.rfqId, p.creator, p.baseToken, p.quoteToken, p.baseAmount,
      p.quoteAmount, p.expiryTimestamp, p.acceptorOnSourceChain, p.quoteTokenRecipient>>

\* a decoding that reads the two amounts from each other's place
decodeDepositNotification_swapped(payload) ==
    [rfqId |-> payload[2], creator |-> payload[3], baseToken |-> payload[4],
     quoteToken |-> payload[5], baseAmount |-> payload[7], quoteAmount |-> payload[6],
     expiryTimestamp |-> payload[8], acceptorOnSourceChain |-> payload[9],
     quoteTokenRecipient |-> payload[10]]

decodeDepositNotification(payload) ==
    [rfqId |-> payload[2], creator |-> payload[3], baseToken |-> payload[4],
     quoteToken |-> payload[5], baseAmount |-> payload[6], quoteAmount |-> payload[7],
     expiryTimestamp |-> payload[8], acceptorOnSourceChain |-> payload[9],
     quoteTokenRecipient |-> payload[10]]

encodeSettlementConfirmation(p) == <<SETTLEMENT_CONFIRMATION, p.rfqId>>

decodeSettlementConfirmation(payload) == [rfqId |-> payload[2]]

getMessageType(payload) == payload[1]

(***************************************************************************)
(* The relayer (MockWormholeRelayer)                                       *)
(***************************************************************************)
quoteEVMDeliveryPrice(targetChain) == BASE_DELIVERY_PRICE

\* a relayer call that forwards the quoted price and leaves the rest with the caller
sendPayloadToEvm_priceOnly(st, fee, targetChain, targetAddress, payload) ==
    IF st.balance[st.this] < fee THEN Fail("OutOfFunds", st)
    ELSE IF fee < BASE_DELIVERY_PRICE THEN Fail("Insufficient delivery fee", st)
    ELSE Ok([st EXCEPT
               !.balance = [a \in DOMAIN st.balance |->
                    IF a = st.this THEN st.balance[a] - BASE_DELIVERY_PRICE
                    ELSE IF a = Relayer THEN st.balance[a] + BASE_DELIVERY_PRICE
                    ELSE st.balance[a]],
               !.transfers = Append(@, [asset |-> ETH, from |-> st.this, to |-> Relayer,
                                        amount |-> BASE_DELIVERY_PRICE]),
               !.outbox = st.outbox \cup
                    {[targetChain |-> targetChain, targetAddress |-> targetAddress,
                      payload |-> payload, sourceChain |-> st.chainid,
                      sourceAddress |-> st.this]}], <<>>)

\* wormholeRelayer.sendPayloadToEvm{value: fee}(targetChain, targetAddress, payload, ...)
sendPayloadToEvm(st, fee, targetChain, targetAddress, payload) ==
    IF st.balance[st.this] < fee THEN Fail("OutOfFunds", st)
    ELSE IF fee < BASE_DELIVERY_PRICE THEN Fail("Insufficient delivery fee", st)
    ELSE Ok([st EXCEPT
               !.balance = [a \in DOMAIN st.balance |->
                    IF a = st.this THEN st.balance[a] - fee
                    ELSE IF a = Relayer THEN st.balance[a] + fee
                    ELSE st.balance[a]],
               !.transfers = Append(@, [asset |-> ETH, from |-> st.this, to |-> Relayer,
                                        amount |-> fee]),
               !.outbox = st.outbox \cup
                    {[targetChain |-> targetChain, targetAddress |-> targetAddress,
                      payload |-> payload, sourceChain |-> st.chainid,
                      sourceAddress |-> st.this]}], <<>>)

(***************************************************************************)
(* RFQSettlement: registry and cross-chain entry points                    *)
(***************************************************************************)
\* a registry anyone may write
setTrustedContract_anyCaller(st, msg, chainId, contractAddress) ==
    IF chainId = 0 THEN Fail("Invalid chain ID", st)
    ELSE IF contractAddress = ZERO THEN Fail("Invalid contract address", st)
    ELSE Ok([st EXCEPT !.trustedContracts =
                [x \in DOMAIN st.trustedContracts \cup {chainId} |->
                    IF x = chainId THEN contractAddress ELSE st.trustedContracts[x]]],
            <<[name |-> "TrustedContractSet", chainId |-> chainId,
               contractAddress |-> contractAddress]>>)

setTrustedContract(st, msg, chainId, contractAddress) ==
    IF msg.sender # Owner THEN Fail("OwnableUnauthorizedAccount", st)
    ELSE IF chainId = 0 THEN Fail("Invalid chain ID", st)
    ELSE IF contractAddress = ZERO THEN Fail("Invalid contract address", st)
    ELSE Ok([st EXCEPT !.trustedContracts =
                [x \in DOMAIN st.trustedContracts \cup {chainId} |->
                    IF x = chainId THEN contractAddress ELSE st.trustedContracts[x]]],
            <<[name |-> "TrustedContractSet", chainId |-> chainId,
               contractAddress |-> contractAddress]>>)

\* a registry that answers for chains never registered
Trusted_unsetAsSelf(st, chainId) ==
    IF chainId \in DOMAIN st.trustedContracts THEN st.trustedContracts[chainId] ELSE st.this

\* address when set, 0 when unset: compare through this
Trusted(st, chainId) ==
    IF chainId \in DOMAIN st.trustedContracts THEN st.trustedContracts[chainId] ELSE ZERO

SendCrossChainMessage(st, msg, destChainId, rfqId, baseToken, quoteToken, baseAmount, quoteAmount, expiryTimestamp, acceptorOnSourceChain, quoteTokenRecipient) ==
    LET payload == encodeDepositNotification(
            [rfqId |-> rfqId, creator |-> msg.sender, baseToken |-> baseToken,
             quoteToken |-> quoteToken, baseAmount |-> baseAmount,
             quoteAmount |-> quoteAmount, expiryTimestamp |-> expiryTimestamp,
             acceptorOnSourceChain |-> acceptorOnSourceChain,
             quoteTokenRecipient |-> quoteTokenRecipient])
        deliveryCost == quoteEVMDeliveryPrice(destChainId)
        wormholeFee == IF baseToken = ETH THEN msg.value - baseAmount ELSE msg.value
    IN  IF wormholeFee < 0 THEN Fail("Panic(0x11)", st)
        ELSE IF wormholeFee < deliveryCost THEN Fail("InsufficientWormholeFee", st)
        ELSE sendPayloadToEvm(st, wormholeFee, destChainId, Trusted(st, destChainId), payload)

initiateCrossChainDeposit(st0, msg, destChainId, baseToken, quoteToken, baseAmount, quoteAmount, expiryDuration, acceptorOnSourceChain, quoteTokenRecipient) ==
    LET st == Payable(st0, msg)
        nonce == Get(st.chainNonces, destChainId)
        rfqId == Keccak(st.chainid, destChainId, msg.sender, nonce, st.timestamp)
        st1 == [st EXCEPT !.chainNonces = Put(st.chainNonces, destChainId, nonce + 1)]
        expiryTimestamp == st.timestamp + expiryDuration
        l == lockTokens(st1, msg, baseToken, msg.sender, baseAmount, rfqId)
        st2 == [l.st EXCEPT !.crossChainDeposits = SetDeposit(l.st.crossChainDeposits, rfqId,
                    [creator |-> msg.sender, baseToken |-> baseToken,
                     quoteToken |-> quoteToken, baseAmount |-> baseAmount,
                     quoteAmount |-> quoteAmount, sourceChainId |-> st.chainid,
                     destChainId |-> destChainId, expiryTimestamp |-> expiryTimestamp,
                     settled |-> FALSE, acceptorOnSourceChain |-> acceptorOnSourceChain,
                     quoteTokenRecipient |-> quoteTokenRecipient])]
        s == SendCrossChainMessage(st2, msg, destChainId, rfqId, baseToken, quoteToken,
                                   baseAmount, quoteAmount, expiryTimestamp,
                                   acceptorOnSourceChain, quoteTokenRecipient)
    IN  IF destChainId = 0 THEN Fail("InvalidChainId", st)
        ELSE IF Trusted(st, destChainId) = ZERO THEN Fail("InvalidChainId", st)
        ELSE IF baseToken = ZERO \/ quoteToken = ZERO THEN Fail("Invalid token address", st)
        ELSE IF baseAmount = 0 \/ quoteAmount = 0 THEN Fail("Invalid amount", st)
        ELSE IF expiryDuration < MINIMUM_EXPIRY_DURATION THEN Fail("ExpiryTooShort", st)
        ELSE IF acceptorOnSourceChain = ZERO THEN Fail("Invalid acceptor address", st)
        ELSE IF quoteTokenRecipient = ZERO THEN Fail("Invalid recipient address", st)
        ELSE IF ~IsOk(l) THEN l
        ELSE IF ~IsOk(s) THEN s
        ELSE [err |-> "OK", st |-> s.st, rfqId |-> rfqId,
              events |-> <<[name |-> "CrossChainDepositInitiated", rfqId |-> rfqId,
                            sourceChainId |-> st.chainid, destChainId |-> destChainId,
                            creator |-> msg.sender, baseToken |-> baseToken,
                            quoteToken |-> quoteToken, baseAmount |-> baseAmount,
                            quoteAmount |-> quoteAmount,
                            expiryTimestamp |-> expiryTimestamp]>>]

isCrossChainDepositActive(st, rfqId) ==
    LET deposit == DepositOf(st.crossChainDeposits, rfqId)
    IN  deposit.creator # ZERO /\ ~deposit.settled /\ st.timestamp <= deposit.expiryTimestamp

\* a settled mark that is put off until after the transfer
MarkSettled_afterTransfer(st, rfqId) == st

MarkSettled(st, rfqId) ==
    [st EXCEPT !.crossChainDeposits =
        SetDeposit(st.crossChainDeposits, rfqId,
                   [DepositOf(st.crossChainDeposits, rfqId) EXCEPT !.settled = TRUE])]

\* a reclaim that does not ask who calls
reclaimCrossChainDeposit_anyCaller(st, msg, rfqId) ==
    LET deposit == DepositOf(st.crossChainDeposits, rfqId)
        st1 == MarkSettled(st, rfqId)
        t == IF deposit.baseToken = ETH
             THEN unlockETH(st1, rfqId, msg.sender, Get(st1.ethDeposits, rfqId))
             ELSE safeTransfer(st1, deposit.baseToken, msg.sender, deposit.baseAmount)
    IN  IF deposit.creator = ZERO THEN Fail("DepositNotFound", st)
        ELSE IF deposit.settled THEN Fail("DepositAlreadySettled", st)
        ELSE IF st.timestamp <= deposit.expiryTimestamp THEN Fail("DepositNotExpired", st)
        ELSE IF ~IsOk(t) THEN t
        ELSE Ok(t.st, <<[name |-> "CrossChainDepositReclaimed", rfqId |-> rfqId,
                         creator |-> msg.sender, baseToken |-> deposit.baseToken,
                         baseAmount |-> deposit.baseAmount]>>)

reclaimCrossChainDeposit(st, msg, rfqId) ==
    LET deposit == DepositOf(st.crossChainDeposits, rfqId)
        st1 == MarkSettled(st, rfqId)
        t == IF deposit.baseToken = ETH
             THEN unlockETH(st1, rfqId, msg.sender, Get(st1.ethDeposits, rfqId))
             ELSE safeTransfer(st1, deposit.baseToken, msg.sender, deposit.baseAmount)
    IN  IF deposit.creator = ZERO THEN Fail("DepositNotFound", st)
        ELSE IF deposit.creator # msg.sender THEN Fail("NotDepositCreator", st)
        ELSE IF deposit.settled THEN Fail("DepositAlreadySettled", st)
        ELSE IF st.timestamp <= deposit.expiryTimestamp THEN Fail("DepositNotExpired", st)
        ELSE IF ~IsOk(t) THEN t
        ELSE Ok(t.st, <<[name |-> "CrossChainDepositReclaimed", rfqId |-> rfqId,
                         creator |-> msg.sender, baseToken |-> deposit.baseToken,
                         baseAmount |-> deposit.baseAmount]>>)

HandleDepositNotification(st, payload, sourceChain) ==
    LET params == decodeDepositNotification(payload)
    IN  IF st.timestamp > params.expiryTimestamp THEN Fail("ExpiredDeposit", st)
        ELSE Ok([st EXCEPT !.crossChainDeposits =
                    SetDeposit(st.crossChainDeposits, params.rfqId,
                        [creator |-> params.creator, baseToken |-> params.baseToken,
                         quoteToken |-> params.quoteToken, baseAmount |-> params.baseAmount,
                         quoteAmount |-> params.quoteAmount, sourceChainId |-> sourceChain,
                         destChainId |-> st.chainid,
                         expiryTimestamp |-> params.expiryTimestamp, settled |-> FALSE,
                         acceptorOnSourceChain |-> params.acceptorOnSourceChain,
                         quoteTokenRecipient |-> params.quoteTokenRecipient])],
                <<[name |-> "CrossChainSettlementReceived", rfqId |-> params.rfqId,
                   sourceChainId |-> sourceChain, creator |-> params.creator,
                   acceptor |-> ZERO, baseToken |-> params.baseToken,
                   quoteToken |-> params.quoteToken, baseAmount |-> params.baseAmount,
                   quoteAmount |-> params.quoteAmount]>>)

HandleSettlementConfirmation(st, payload) ==
    LET params == decodeSettlementConfirmation(payload)
        deposit == DepositOf(st.crossChainDeposits, params.rfqId)
        st1 == MarkSettled(st, params.rfqId)
        acceptor == deposit.acceptorOnSourceChain
        t == IF deposit.baseToken = ETH
             THEN unlockETH(st1, params.rfqId, acceptor, Get(st1.ethDeposits, params.rfqId))
             ELSE safeTransfer(st1, deposit.baseToken, acceptor, deposit.baseAmount)
    IN  IF deposit.creator = ZERO THEN Fail("DepositNotFound", st)
        ELSE IF deposit.settled THEN Fail("DepositAlreadySettled", st)
        ELSE IF ~IsOk(t) THEN t
        ELSE Ok(t.st, <<[name |-> "BaseTokensReleased", rfqId |-> params.rfqId,
                         acceptor |-> acceptor, baseToken |-> deposit.baseToken,
                         baseAmount |-> deposit.baseAmount],
                        [name |-> "TradeExecuted", rfqId |-> params.rfqId,
                         creator |-> deposit.creator, acceptor |-> acceptor,
                         baseToken |-> deposit.baseToken, quoteToken |-> deposit.quoteToken,
                         baseAmount |-> deposit.baseAmount,
                         quoteAmount |-> deposit.quoteAmount]>>)

\* a source check that lets an unset registry entry match the zero address
IsTrustedSource_allowUnset(st, sourceAddress, sourceChain) ==
    sourceAddress = Trusted(st, sourceChain)

\* actualSource == expectedSource and expectedSource != address(0)
IsTrustedSource(st, sourceAddress, sourceChain) ==
    LET expectedSource == Trusted(st, sourceChain)
        actualSource == sourceAddress
    IN  ~(actualSource # expectedSource \/ expectedSource = ZERO)

\* a receiver that remembers no delivery
NeverConsumed(st, deliveryHash) == FALSE

\* if (consumedMessages[deliveryHash]) revert MessageAlreadyProcessed()
AlreadyConsumed(st, deliveryHash) == deliveryHash \in st.consumedMessages

receiveWormholeMessages(st0, msg, payload, sourceAddress, sourceChain, deliveryHash) ==
    LET st == Payable(st0, msg)
        st1 == [st EXCEPT !.consumedMessages = st.consumedMessages \cup {deliveryHash}]
        messageType == getMessageType(payload)
    IN  IF msg.sender # Relayer THEN Fail("UnauthorizedWormholeSource", st)
        ELSE IF ~IsTrustedSource(st, sourceAddress, sourceChain)
            THEN Fail("UnauthorizedWormholeSource", st)
        ELSE IF AlreadyConsumed(st, deliveryHash) THEN Fail("MessageAlreadyProcessed", st)
        ELSE IF messageType = DEPOSIT_NOTIFICATION
            THEN HandleDepositNotification(st1, payload, sourceChain)
        ELSE IF messageType = SETTLEMENT_CONFIRMATION
            THEN HandleSettlementConfirmation(st1, payload)
        ELSE Fail("Invalid message type", st1)

acceptCrossChainRFQ(st0, msg, rfqId) ==
    LET st == Payable(st0, msg)
        deposit == DepositOf(st.crossChainDeposits, rfqId)
        st1 == MarkSettled(st, rfqId)
        acceptor == msg.sender
        returnMessageCost == quoteEVMDeliveryPrice(deposit.sourceChainId)
        isEth == deposit.quoteToken = ETH
        requiredValue == IF isEth THEN deposit.quoteAmount + returnMessageCost
                         ELSE returnMessageCost
        wormholeFee == IF isEth THEN msg.value - deposit.quoteAmount ELSE msg.value
        p == IF isEth
             THEN sendETH(st1, deposit.quoteTokenRecipient, deposit.quoteAmount)
             ELSE safeTransferFrom(st1, deposit.quoteToken, acceptor,
                                   deposit.quoteTokenRecipient, deposit.quoteAmount)
        s == sendPayloadToEvm(p.st, wormholeFee, deposit.sourceChainId,
                              Trusted(p.st, deposit.sourceChainId),
                              encodeSettlementConfirmation([rfqId |-> rfqId]))
    IN  IF deposit.creator = ZERO THEN Fail("DepositNotFound", st)
        ELSE IF deposit.settled THEN Fail("DepositAlreadySettled", st)
        ELSE IF st.timestamp > deposit.expiryTimestamp THEN Fail("ExpiredDeposit", st)
        ELSE IF msg.value < requiredValue THEN Fail("InsufficientWormholeFee", st1)
        ELSE IF ~IsOk(p) THEN p
        ELSE IF ~IsOk(s) THEN s
        ELSE Ok(s.st, <<[name |-> "TradeExecuted", rfqId |-> rfqId,
                         creator |-> deposit.creator, acceptor |-> acceptor,
                         baseToken |-> deposit.baseToken, quoteToken |-> deposit.quoteToken,
                         baseAmount |-> deposit.baseAmount,
                         quoteAmount |-> deposit.quoteAmount]>>)

(***************************************************************************)
(* State                                                                   *)
(***************************************************************************)
VARIABLES
    ethDeposits,        \* per chain: mapping(bytes32 => uint256) ethDeposits
    crossChainDeposits, \* per chain: mapping(bytes32 => CrossChainDeposit)
    trustedContracts,   \* per chain: mapping(uint16 => address)
    consumedMessages,   \* per chain: the delivery hashes marked consumed
    chainNonces,        \* per chain: mapping(uint16 => uint256)
    balance,            \* per chain: native balance of every account
    tokenBalance,       \* per chain: ERC20 balances, per token and account
    relay,              \* messages submitted to the relayer (it may deliver any of them, any number of times)
    now,                \* per chain: block.timestamp
    last,               \* the most recent successful call: entry point, caller, arguments, effects
    history,            \* successful accept / confirmation / reclaim / notification calls, in order
    escrowCalls         \* successful depositForRFQ / withdrawDeposit / execute calls, as a set

chainVars == <<ethDeposits, crossChainDeposits, trustedContracts, consumedMessages,
               chainNonces, balance, tokenBalance, relay>>
vars == <<ethDeposits, crossChainDeposits, trustedContracts, consumedMessages,
          chainNonces, balance, tokenBalance, relay, now, last, history, escrowCalls>>

Accounts(c) == Users \cup {Rejector, Relayer, Owner, Settlement(c)}

\* the chain's state as the contract code sees it during one call
World(c) ==
    [this |-> Settlement(c), chainid |-> c, timestamp |-> now[c],
     ethDeposits |-> ethDeposits[c], crossChainDeposits |-> crossChainDeposits[c],
     trustedContracts |-> trustedContracts[c], consumedMessages |-> consumedMessages[c],
     chainNonces |-> chainNonces[c], balance |-> balance[c],
     tokenBalance |-> tokenBalance[c], outbox |-> {}, transfers |-> <<>>]

NoCall == [op |-> "none", chain |-> 0, sender |-> ZERO, value |-> 0, args |-> <<>>,
           events |-> <<>>, transfers |-> <<>>]

Init ==
    /\ ethDeposits = [c \in Chains |-> Empty]
    /\ crossChainDeposits = [c \in Chains |-> Empty]
    /\ trustedContracts = [c \in Chains |-> Empty]
    /\ consumedMessages = [c \in Chains |-> {}]
    /\ chainNonces = [c \in Chains |-> Empty]
    /\ balance = [c \in Chains |-> [a \in Accounts(c) |-> IF a \in Users THEN InitialFunds ELSE 0]]
    /\ tokenBalance = [c \in Chains |-> [t \in Tokens |-> [a \in Accounts(c) |->
                            IF a \in Users \cup {Rejector} THEN InitialFunds ELSE 0]]]
    /\ relay = {}
    /\ now = [c \in Chains |-> 0]
    /\ last = NoCall
    /\ history = <<>>
    /\ escrowCalls = {}

\* a chain that keeps what a failing call wrote before it failed
Commit(pre, r) == r.st

\* the chain's state after a call with result r: a result with an error reverts
\* every effect of the call
Effect(pre, r) == IF IsOk(r) THEN r.st ELSE pre

\* One call of an entry point on chain c with result r.  A reverted call leaves
\* no trace in the state at all.
Call(c, op, msg, args, r) ==
    LET post == Effect(World(c), r)
    IN  /\ msg.sender \in DOMAIN balance[c]
        /\ balance[c][msg.sender] >= msg.value
        /\ ethDeposits' = [ethDeposits EXCEPT ![c] = post.ethDeposits]
        /\ crossChainDeposits' = [crossChainDeposits EXCEPT ![c] = post.crossChainDeposits]
        /\ trustedContracts' = [trustedContracts EXCEPT ![c] = post.trustedContracts]
        /\ consumedMessages' = [consumedMessages EXCEPT ![c] = post.consumedMessages]
        /\ chainNonces' = [chainNonces EXCEPT ![c] = post.chainNonces]
        /\ balance' = [balance EXCEPT ![c] = post.balance]
        /\ tokenBalance' = [tokenBalance EXCEPT ![c] = post.tokenBalance]
        /\ relay' = relay \cup post.outbox
        /\ last' = IF IsOk(r)
                   THEN [op |-> op, chain |-> c, sender |-> msg.sender, value |-> msg.value,
                         args |-> args, events |-> r.events, transfers |-> r.st.transfers]
                   ELSE last
        /\ now' = now

Msg(sender, value) == [sender |-> sender, value |-> value]

\* every rfqId some chain holds a record for
CrossIds == UNION {DOMAIN crossChainDeposits[c] : c \in Chains}
\* those, and one made up by a caller
KnownIds == {LocalId} \cup CrossIds

Record(op, c, msg, rfqId, r) ==
    [op |-> op, chain |-> c, rfqId |-> rfqId, sender |-> msg.sender, hash |-> 0,
     transfers |-> r.st.transfers]

Logged(r, entry) ==
    /\ history' = IF IsOk(r) THEN Append(history, entry) ELSE history
    /\ UNCHANGED escrowCalls

Escrow(r, entry) ==
    /\ escrowCalls' = IF IsOk(r) THEN escrowCalls \cup {entry} ELSE escrowCalls
    /\ UNCHANGED history

(***************************************************************************)
(* Calls, with their arguments                                             *)
(***************************************************************************)
DepositCall(c, sender, value, rfqId) ==
    LET msg == Msg(sender, value)
        r == depositForRFQ(World(c), msg, rfqId)
    IN  /\ Call(c, "depositForRFQ", msg, [rfqId |-> rfqId], r)
        /\ Escrow(r, [Record("depositForRFQ", c, msg, rfqId, r) EXCEPT
                        !.transfers = <<[asset |-> ETH, from |-> sender,
                                         to |-> Settlement(c), amount |-> value]>>])

WithdrawCall(c, sender, rfqId) ==
    LET msg == Msg(sender, 0)
        r == withdrawDeposit(World(c), msg, rfqId)
    IN  /\ Call(c, "withdrawDeposit", msg, [rfqId |-> rfqId], r)
        /\ Escrow(r, Record("withdrawDeposit", c, msg, rfqId, r))

ExecuteCall(c, sender, value, rfqId, creator, baseToken, quoteToken, baseAmount, quoteAmount) ==
    LET msg == Msg(sender, value)
        r == execute(World(c), msg, rfqId, creator, baseToken, quoteToken, baseAmount,
                     quoteAmount)
    IN  /\ Call(c, "execute", msg,
                [rfqId |-> rfqId, creator |-> creator, baseToken |-> baseToken,
                 quoteToken |-> quoteToken, baseAmount |-> baseAmount,
                 quoteAmount |-> quoteAmount], r)
        /\ Escrow(r, Record("execute", c, msg, rfqId, r))

SetTrustedCall(c, sender, chainId, contractAddress) ==
    LET msg == Msg(sender, 0)
        r == setTrustedContract(World(c), msg, chainId, contractAddress)
    IN  /\ Call(c, "setTrustedContract", msg,
                [chainId |-> chainId, contractAddress |-> contractAddress], r)
        /\ UNCHANGED <<history, escrowCalls>>

InitiateCall(c, sender, value, a) ==
    LET msg == Msg(sender, value)
        r == initiateCrossChainDeposit(World(c), msg, a.destChainId, a.baseToken,
                 a.quoteToken, a.baseAmount, a.quoteAmount, a.expiryDuration,
                 a.acceptorOnSourceChain, a.quoteTokenRecipient)
    IN  /\ Call(c, "initiateCrossChainDeposit", msg, a, r)
        /\ UNCHANGED <<history, escrowCalls>>

ReclaimCall(c, sender, rfqId) ==
    LET msg == Msg(sender, 0)
        r == reclaimCrossChainDeposit(World(c), msg, rfqId)
    IN  /\ Call(c, "reclaimCrossChainDeposit", msg, [rfqId |-> rfqId], r)
        /\ Logged(r, Record("reclaim", c, msg, rfqId, r))

AcceptCall(c, sender, value, rfqId) ==
    LET msg == Msg(sender, value)
        r == acceptCrossChainRFQ(World(c), msg, rfqId)
    IN  /\ Call(c, "acceptCrossChainRFQ", msg, [rfqId |-> rfqId], r)
        /\ Logged(r, Record("accept", c, msg, rfqId, r))

ReceiveCall(c, sender, payload, sourceAddress, sourceChain, deliveryHash) ==
    LET msg == Msg(sender, 0)
        r == receiveWormholeMessages(World(c), msg, payload, sourceAddress, sourceChain,
                                     deliveryHash)
        kind == IF getMessageType(payload) = DEPOSIT_NOTIFICATION THEN "notify" ELSE "confirm"
    IN  /\ Call(c, "receiveWormholeMessages", msg,
                [rfqId |-> payload[2], type |-> getMessageType(payload),
                 sourceAddress |-> sourceAddress, sourceChain |-> sourceChain,
                 deliveryHash |-> deliveryHash], r)
        /\ Logged(r, [Record(kind, c, msg, payload[2], r) EXCEPT !.hash = deliveryHash])

(***************************************************************************)
(* The cross-chain system: both deployments, the relay, the clock          *)
(***************************************************************************)
\* a well-formed cross-chain RFQ from chain c, and the ways a call can depart from it
GoodTerms(c) ==
    [destChainId : {Other(c)}, baseToken : {ETH, BaseTok}, quoteToken : {ETH, QuoteTok},
     baseAmount : {2}, quoteAmount : {1}, expiryDuration : {MINIMUM_EXPIRY_DURATION},
     acceptorOnSourceChain : {"bob", Rejector}, quoteTokenRecipient : {"alice"}]

BadTerms(c) ==
    LET g == [destChainId |-> Other(c), baseToken |-> ETH, quoteToken |-> QuoteTok,
              baseAmount |-> 2, quoteAmount |-> 1,
              expiryDuration |-> MINIMUM_EXPIRY_DURATION,
              acceptorOnSourceChain |-> "bob", quoteTokenRecipient |-> "alice"]
    IN  {[g EXCEPT !.destChainId = 0], [g EXCEPT !.baseToken = ZERO],
         [g EXCEPT !.quoteToken = ZERO], [g EXCEPT !.baseAmount = 0],
         [g EXCEPT !.quoteAmount = 0],
         [g EXCEPT !.expiryDuration = MINIMUM_EXPIRY_DURATION - 1],
         [g EXCEPT !.acceptorOnSourceChain = ZERO],
         [g EXCEPT !.quoteTokenRecipient = ZERO]}

\* what a call with these terms has to attach: the locked native amount and the relay's price
Needed(a) == (IF a.baseToken = ETH THEN a.baseAmount ELSE 0) + BASE_DELIVERY_PRICE

Initiated == LET RECURSIVE Sum(_)
                 Sum(S) == IF S = {} THEN 0
                           ELSE LET x == CHOOSE y \in S : TRUE
                                IN  Get(chainNonces[x[1]], x[2]) + Sum(S \ {x})
             IN  Sum(Chains \X Chains)

SetTrusted ==
    \E c \in Chains :
        \E in \in {<<Owner, Other(c), Settlement(Other(c))>>, <<Owner, 0, Settlement(Other(c))>>,
                   <<Owner, Other(c), ZERO>>, <<"mallory", Other(c), "mallory">>} :
            SetTrustedCall(c, in[1], in[2], in[3])

Initiate ==
    /\ Initiated < MaxRfqs
    /\ \E c \in {1} :
        \E a \in GoodTerms(c) \cup BadTerms(c) :
            \E value \in {0, Needed(a) - 1, Needed(a)} :
                InitiateCall(c, "alice", value, a)

\* the relayer delivers a submitted message to its target, under any delivery hash;
\* anyone may also call the receiver directly, or relay the payload from another sender
Deliver ==
    \E m \in relay, h \in Hashes :
        \E in \in {<<Relayer, m.sourceAddress>>, <<Relayer, "mallory">>,
                   <<"mallory", m.sourceAddress>>} :
            /\ m.targetChain \in Chains
            /\ m.targetAddress = Settlement(m.targetChain)
            /\ ReceiveCall(m.targetChain, in[1], m.payload, in[2], m.sourceChain, h)

\* a settlement confirmation nobody sent, relayed from a contract of mallory's
Forge ==
    \E c \in Chains, id \in KnownIds, h \in Hashes :
        ReceiveCall(c, Relayer, encodeSettlementConfirmation([rfqId |-> id]), "mallory",
                    Other(c), h)

\* what an acceptor of rfqId on chain c has to attach
AcceptNeeded(c, id) ==
    LET d == DepositOf(crossChainDeposits[c], id)
    IN  (IF d.quoteToken = ETH THEN d.quoteAmount ELSE 0) + BASE_DELIVERY_PRICE

Accept ==
    \E c \in Chains, id \in KnownIds :
        \E value \in {AcceptNeeded(c, id) - 1, AcceptNeeded(c, id)} :
            AcceptCall(c, "bob", value, id)

Reclaim ==
    \E c \in Chains, id \in KnownIds, sender \in {"alice", "mallory"} :
        ReclaimCall(c, sender, id)

\* other callers naming the same rfqId in the native escrow entry points
DepositForRFQ ==
    /\ Cardinality(escrowCalls) < MaxEscrowCalls
    /\ \E c \in Chains, id \in CrossIds, value \in {0, 1, 3} :
            DepositCall(c, "mallory", value, id)

WithdrawDeposit ==
    /\ Cardinality(escrowCalls) < MaxEscrowCalls
    /\ \E c \in Chains, id \in CrossIds : WithdrawCall(c, "mallory", id)

Execute ==
    /\ Cardinality(escrowCalls) < MaxEscrowCalls
    /\ \E c \in Chains, id \in CrossIds, baseAmount \in {2} :
            ExecuteCall(c, "mallory", 1, id, "mallory", ETH, ETH, baseAmount, 1)

AllDeposits ==
    UNION {{crossChainDeposits[c][id] : id \in DOMAIN crossChainDeposits[c]} : c \in Chains}

\* time passes on both chains alike: up to an expiry, or just beyond it
Tick ==
    /\ \E t \in UNION {{d.expiryTimestamp, d.expiryTimestamp + 1} : d \in AllDeposits} :
            /\ \A c \in Chains : t > now[c]
            /\ now' = [c \in Chains |-> t]
    /\ last' = [NoCall EXCEPT !.op = "tick"]
    /\ UNCHANGED <<chainVars, history, escrowCalls>>

Next ==
    \/ SetTrusted
    \/ Initiate
    \/ Deliver
    \/ Forge
    \/ Accept
    \/ Reclaim
    \/ DepositForRFQ
    \/ WithdrawDeposit
    \/ Execute
    \/ Tick

Spec == Init /\ [][Next]_vars

(***************************************************************************)
(* Same-chain trading on one deployment: deposits, withdrawals and         *)
(* executions with every kind of argument                                  *)
(***************************************************************************)
\* the calls of execute tried in every state
ExecuteInputs ==
    [sender : {"alice", "bob"}, value : {0, 1, 2}, rfqId : {LocalId},
     creator : {"alice", Rejector, ZERO}, baseToken : {ETH, BaseTok, ZERO},
     quoteToken : {ETH, QuoteTok}, baseAmount : {0, 1, 2}, quoteAmount : {1, 2}]

\* the result of the call `in` of execute in the current state of chain c
ExecuteResult(c, in) ==
    execute(World(c), Msg(in.sender, in.value), in.rfqId, in.creator, in.baseToken,
            in.quoteToken, in.baseAmount, in.quoteAmount)

\* a caller cannot attach more than it owns
CanCall(c, in) == balance[c][in.sender] >= in.value

DepositLocal ==
    /\ Cardinality(escrowCalls) < MaxLocalCalls
    /\ \E sender \in {"alice", "mallory"}, value \in {0, 1, 2} :
            DepositCall(1, sender, value, LocalId)

WithdrawLocal ==
    /\ Cardinality(escrowCalls) < MaxLocalCalls
    /\ \E sender \in {"alice", "mallory"} : WithdrawCall(1, sender, LocalId)

ExecuteLocal ==
    /\ Cardinality(escrowCalls) < MaxLocalCalls
    /\ \E in \in ExecuteInputs :
            ExecuteCall(1, in.sender, in.value, in.rfqId, in.creator, in.baseToken,
                        in.quoteToken, in.baseAmount, in.quoteAmount)

NextSame ==
    \/ DepositLocal
    \/ WithdrawLocal
    \/ ExecuteLocal

SpecSame == Init /\ [][NextSame]_vars

(***************************************************************************)
(* The cross-chain protocol between two chains whose blocks carry their    *)
(* own timestamps: each chain's clock advances by itself                   *)
(***************************************************************************)
TickChain ==
    /\ \E c \in Chains :
        \E t \in UNION {{d.expiryTimestamp, d.expiryTimestamp + 1} : d \in AllDeposits} :
            /\ t > now[c]
            /\ now' = [now EXCEPT ![c] = t]
    /\ last' = [NoCall EXCEPT !.op = "tick"]
    /\ UNCHANGED <<chainVars, history, escrowCalls>>

NextSkew ==
    \/ SetTrusted
    \/ Initiate
    \/ Deliver
    \/ Accept
    \/ Reclaim
    \/ TickChain

SpecSkew == Init /\ [][NextSkew]_vars

(***************************************************************************)
(* Properties: same-chain execution                                        *)
(***************************************************************************)
\* the balance an account holds of an asset, native or token
BalanceOf(st, asset, a) ==
    IF asset = ETH THEN st.balance[a] ELSE st.tokenBalance[asset][a]

\* the base leg of the call `in` on chain c: out of the creator's tokens, or out of
\* the contract's native escrow
BaseLeg(c, in) ==
    [asset |-> in.baseToken,
     from |-> IF in.baseToken = ETH THEN Settlement(c) ELSE in.creator,
     to |-> in.sender, amount |-> in.baseAmount]

\* the quote leg: out of the acceptor's tokens, or out of the value the acceptor attached
QuoteLeg(c, in) ==
    [asset |-> in.quoteToken,
     from |-> IF in.quoteToken = ETH THEN Settlement(c) ELSE in.sender,
     to |-> in.creator, amount |-> in.quoteAmount]

\* what the two legs together add to account a's balance of an asset
NetOfLegs(in, asset, a) ==
    (IF asset = in.baseToken /\ a = in.sender THEN in.baseAmount ELSE 0)
    - (IF asset = in.baseToken /\ asset # ETH /\ a = in.creator THEN in.baseAmount ELSE 0)
    + (IF asset = in.quoteToken /\ a = in.creator THEN in.quoteAmount ELSE 0)
    - (IF asset = in.quoteToken /\ a = in.sender THEN in.quoteAmount ELSE 0)

TradeExecutedOf(in) ==
    [name |-> "TradeExecuted", rfqId |-> in.rfqId, creator |-> in.creator,
     acceptor |-> in.sender, baseToken |-> in.baseToken, quoteToken |-> in.quoteToken,
     baseAmount |-> in.baseAmount, quoteAmount |-> in.quoteAmount]

\* C2: in every reachable state and for every call of execute, the call either
\* succeeds having moved both legs (the base asset to the acceptor, then the quote
\* asset to the creator), or it fails and the chain's balances, token balances and
\* escrow ledger are what they were before the call -- also when the failure comes
\* after the base leg has already moved.
C2_ExecuteBothLegsOrNothing ==
    \A in \in ExecuteInputs :
        CanCall(1, in) =>
            LET r == ExecuteResult(1, in)
            IN  IF IsOk(r)
                THEN /\ Len(r.st.transfers) = 2
                     /\ r.st.transfers[1].asset = in.baseToken
                     /\ r.st.transfers[1].to = in.sender
                     /\ r.st.transfers[1].amount = in.baseAmount
                     /\ r.st.transfers[2].asset = in.quoteToken
                     /\ r.st.transfers[2].to = in.creator
                     /\ r.st.transfers[2].amount = in.quoteAmount
                ELSE /\ Effect(World(1), r).balance = balance[1]
                     /\ Effect(World(1), r).tokenBalance = tokenBalance[1]
                     /\ Effect(World(1), r).ethDeposits = ethDeposits[1]

\* C2, its case: after a successful execute, a call whose creator rejects the native
\* quote payment fails once its base leg has moved
C2_RejectedAfterBaseLeg ==
    /\ last.op = "execute"
    /\ \E in \in ExecuteInputs :
        /\ CanCall(1, in)
        /\ in.creator = Rejector
        /\ ExecuteResult(1, in).err = "ETHTransferFailed"
        /\ Len(ExecuteResult(1, in).st.transfers) = 1

\* C3 as stated: every successful execute lowers the creator's balance of the base
\* asset by baseAmount and raises the acceptor's by baseAmount, lowers the
\* acceptor's balance of the quote asset by quoteAmount and raises the creator's by
\* quoteAmount, and records the trade with the call's arguments.
C3_ExactDeltasAsStated ==
    \A in \in ExecuteInputs :
        CanCall(1, in) =>
            LET r == ExecuteResult(1, in)
                pre == World(1)
            IN  IsOk(r) =>
                /\ BalanceOf(r.st, in.baseToken, in.creator)
                     = BalanceOf(pre, in.baseToken, in.creator) - in.baseAmount
                /\ BalanceOf(r.st, in.baseToken, in.sender)
                     = BalanceOf(pre, in.baseToken, in.sender) + in.baseAmount
                /\ BalanceOf(r.st, in.quoteToken, in.sender)
                     = BalanceOf(pre, in.quoteToken, in.sender) - in.quoteAmount
                /\ BalanceOf(r.st, in.quoteToken, in.creator)
                     = BalanceOf(pre, in.quoteToken, in.creator) + in.quoteAmount
                /\ r.events = <<TradeExecutedOf(in)>>

\* C3, amended: every successful execute makes exactly two transfers -- baseAmount of
\* the base asset to the acceptor, paid by the creator when the base asset is a
\* token and out of the contract's escrow entry for rfqId when it is native (the
\* entry drops by baseAmount, the creator's native balance is not charged), then
\* quoteAmount of the quote asset from the acceptor to the creator; every user's
\* balance of every asset changes by exactly the net of the two legs; and the
\* trade-executed record carries the call's rfqId, creator, caller-as-acceptor,
\* assets and amounts.
C3_ExactLegs ==
    \A in \in ExecuteInputs :
        CanCall(1, in) =>
            LET r == ExecuteResult(1, in)
                pre == World(1)
            IN  IsOk(r) =>
                /\ r.st.transfers = <<BaseLeg(1, in), QuoteLeg(1, in)>>
                /\ Get(r.st.ethDeposits, in.rfqId)
                     = Get(pre.ethDeposits, in.rfqId)
                        - (IF in.baseToken = ETH THEN in.baseAmount ELSE 0)
                /\ \A a \in Users \cup {Rejector} :
                     \A asset \in Tokens \cup {ETH} :
                        BalanceOf(r.st, asset, a)
                            = BalanceOf(pre, asset, a) + NetOfLegs(in, asset, a)
                /\ r.st.balance[Settlement(1)]
                     = pre.balance[Settlement(1)]
                        - (IF in.baseToken = ETH THEN in.baseAmount ELSE 0)
                /\ r.events = <<TradeExecutedOf(in)>>

\* C3, its case: an execute with a native base asset between two different parties
\* has succeeded
C3_NativeBaseExecuted ==
    /\ last.op = "execute"
    /\ last.args.baseToken = ETH
    /\ last.args.creator # last.sender
    /\ last.events = <<[name |-> "TradeExecuted", rfqId |-> last.args.rfqId,
                        creator |-> last.args.creator, acceptor |-> last.sender,
                        baseToken |-> ETH, quoteToken |-> last.args.quoteToken,
                        baseAmount |-> last.args.baseAmount,
                        quoteAmount |-> last.args.quoteAmount]>>

(***************************************************************************)
(* Properties: the inbound message receiver                                *)
(***************************************************************************)
\* the deliveries tried in every state on chain c: what the relay holds, a
\* confirmation nobody sent, and a payload with an unknown type tag, under every
\* delivery hash, by the relayer or by someone else, from the registered counterpart
\* or from somewhere else
DeliveryInputs(c) ==
    [sender : {Relayer, "mallory"},
     payload : {m.payload : m \in relay}
                \cup {encodeSettlementConfirmation([rfqId |-> id]) : id \in KnownIds}
                \cup {<<2, LocalId>>},
     sourceAddress : {Settlement(Other(c)), "mallory"},
     hash : Hashes]

ReceiveResult(c, in) ==
    receiveWormholeMessages(World(c), Msg(in.sender, 0), in.payload, in.sourceAddress,
                            Other(c), in.hash)

\* the caller is the relayer and the source is the contract registered for its chain
Authenticated(c, in) ==
    /\ in.sender = Relayer
    /\ Other(c) \in DOMAIN trustedContracts[c]
    /\ trustedContracts[c][Other(c)] = in.sourceAddress

\* the deliveries that took effect on chain c under hash h
Delivered(c, h) ==
    {i \in DOMAIN history : /\ history[i].op \in {"notify", "confirm"}
                            /\ history[i].chain = c
                            /\ history[i].hash = h}

\* C4 as stated: once a delivery under hash h has succeeded, every later delivery
\* under h -- whatever its payload and its source -- fails MessageAlreadyProcessed
\* and changes nothing.
C4_ReplayAsStated ==
    \A c \in Chains :
        \A in \in DeliveryInputs(c) :
            in.hash \in consumedMessages[c] =>
                /\ ReceiveResult(c, in).err = "MessageAlreadyProcessed"
                /\ Effect(World(c), ReceiveResult(c, in)) = World(c)

\* C4, amended: once a delivery under hash h has succeeded, every later delivery
\* under h fails and changes nothing (deposit table, escrow ledger, consumed set,
\* balances): with MessageAlreadyProcessed when the caller is the relayer and the
\* source is the registered counterpart, with UnauthorizedWormholeSource otherwise,
\* authentication being checked first; no delivery hash takes effect twice.
C4_ReplayRejected ==
    \A c \in Chains :
        /\ \A in \in DeliveryInputs(c) :
                in.hash \in consumedMessages[c] =>
                    /\ ReceiveResult(c, in).err =
                            IF Authenticated(c, in) THEN "MessageAlreadyProcessed"
                            ELSE "UnauthorizedWormholeSource"
                    /\ Effect(World(c), ReceiveResult(c, in)) = World(c)
        /\ \A h \in Hashes :
                /\ Cardinality(Delivered(c, h)) <= 1
                /\ Delivered(c, h) # {} => h \in consumedMessages[c]

\* C4, its case: a notification has been delivered and accepted, and the relay
\* still holds it for an authenticated redelivery under the same hash
C4_RedeliveryPending ==
    \E c \in Chains :
        \E in \in DeliveryInputs(c) :
            /\ in.hash \in consumedMessages[c]
            /\ Delivered(c, in.hash) # {}
            /\ Authenticated(c, in)
            /\ in.payload \in {m.payload : m \in relay}
            /\ getMessageType(in.payload) = DEPOSIT_NOTIFICATION

\* the authenticated deliveries under a fresh hash whose handler fails
HandlerFails(c, in) ==
    /\ Authenticated(c, in)
    /\ in.hash \notin consumedMessages[c]
    /\ ~IsOk(ReceiveResult(c, in))

\* C5 as stated: when an authenticated delivery under a fresh hash fails in its
\* handler, the hash stays consumed and a retry under it fails
\* MessageAlreadyProcessed.
C5_ConsumedAsStated ==
    \A c \in Chains :
        \A in \in DeliveryInputs(c) :
            HandlerFails(c, in) =>
                LET post == Effect(World(c), ReceiveResult(c, in))
                IN  /\ in.hash \in post.consumedMessages
                    /\ receiveWormholeMessages(post, Msg(in.sender, 0), in.payload,
                            in.sourceAddress, Other(c), in.hash).err
                         = "MessageAlreadyProcessed"

\* C5, amended: when an authenticated delivery under a fresh hash fails in its
\* handler (ExpiredDeposit, DepositNotFound, DepositAlreadySettled, an unknown type
\* tag, a failed release transfer), the hash was marked before the dispatch but the
\* whole call aborts, the mark with it: the hash is not in the consumed set
\* afterwards, nothing else has changed, and a retry under the same hash passes the
\* replay check and runs the handler again.
C5_FailedDeliveryNotConsumed ==
    \A c \in Chains :
        \A in \in DeliveryInputs(c) :
            HandlerFails(c, in) =>
                LET r == ReceiveResult(c, in)
                    post == Effect(World(c), r)
                IN  /\ r.err \in {"ExpiredDeposit", "DepositNotFound", "DepositAlreadySettled",
                                  "Invalid message type", "ETHTransferFailed",
                                  "ERC20InsufficientBalance"}
                    /\ in.hash \in r.st.consumedMessages
                    /\ in.hash \notin post.consumedMessages
                    /\ post = World(c)
                    /\ receiveWormholeMessages(post, Msg(in.sender, 0), in.payload,
                            in.sourceAddress, Other(c), in.hash).err = r.err

\* C5, its case: the relay holds a message whose authenticated delivery under a
\* fresh hash fails in the handler, after an earlier delivery took effect
C5_HandlerFailurePending ==
    \E c \in Chains :
        \E in \in DeliveryInputs(c) :
            /\ HandlerFails(c, in)
            /\ in.payload \in {m.payload : m \in relay}
            /\ ReceiveResult(c, in).err \in {"ExpiredDeposit", "DepositAlreadySettled"}
            /\ consumedMessages[c] # {}

(***************************************************************************)
(* Properties: the cross-chain protocol                                    *)
(***************************************************************************)
\* an rfqId is the tuple its hash was taken of: the source and destination chains
SourceOf(id) == id[1]
DestOf(id) == id[2]

\* the successful calls of one kind for rfqId on chain c, as positions in the history
Entries(ops, c, id) ==
    {i \in DOMAIN history : /\ history[i].op \in ops
                            /\ history[i].chain = c
                            /\ history[i].rfqId = id}

\* the base asset that confirmations and reclaims together paid out for rfqId on chain c
PaidOut(c, id) ==
    LET RECURSIVE Sum(_)
        Sum(i) == IF i = 0 THEN 0
                  ELSE (IF i \in Entries({"confirm", "reclaim"}, c, id)
                        THEN history[i].transfers[1].amount ELSE 0) + Sum(i - 1)
    IN  Sum(Len(history))

\* the one transfer that releases the record's base asset from chain c's contract
BaseRelease(c, d, to) ==
    [asset |-> d.baseToken, from |-> Settlement(c), to |-> to, amount |-> d.baseAmount]

\* C1: in no reachable state has the quote leg of a cross-chain RFQ been paid on the
\* destination (an accept succeeded there) while its base asset went back to the
\* creator on the source (a reclaim succeeded there).
C1_CrossChainAtomicity ==
    \A id \in CrossIds :
        ~ /\ Entries({"accept"}, DestOf(id), id) # {}
          /\ Entries({"reclaim"}, SourceOf(id), id) # {}

\* C6: no step takes the settled flag of any cross-chain deposit record from true
\* back to false.
C6_SettledNeverReset ==
    [][\A c \in Chains :
         \A id \in DOMAIN crossChainDeposits[c] :
            crossChainDeposits[c][id].settled => crossChainDeposits'[c][id].settled]_vars

\* C7: for every rfqId, on each chain, at most one call ever takes the settled flag
\* from false to true (so after a confirmation or a reclaim has succeeded no later
\* one does), and confirmations and reclaims together pay out at most the record's
\* baseAmount.
C7_NoDoubleRelease ==
    \A c \in Chains :
        \A id \in DOMAIN crossChainDeposits[c] :
            /\ Cardinality(Entries({"accept", "confirm", "reclaim"}, c, id)) <= 1
            /\ PaidOut(c, id) <= crossChainDeposits[c][id].baseAmount

\* C8: a reclaim by the creator of an unsettled record fails DepositNotExpired while
\* now <= expiryTimestamp; on the source chain a reclaim succeeds at most once per
\* rfqId, only after the expiry, and pays the creator exactly the baseAmount locked
\* at the initiation, whatever depositForRFQ, withdrawDeposit or execute calls were
\* made in between.
C8_ReclaimFullAmount ==
    \A id \in CrossIds :
        LET c == SourceOf(id)
            d == DepositOf(crossChainDeposits[c], id)
        IN  /\ (d.creator # ZERO /\ ~d.settled /\ now[c] <= d.expiryTimestamp) =>
                    reclaimCrossChainDeposit(World(c), Msg(d.creator, 0), id).err
                        = "DepositNotExpired"
            /\ Cardinality(Entries({"reclaim"}, c, id)) <= 1
            /\ \A i \in Entries({"reclaim"}, c, id) :
                    /\ now[c] > d.expiryTimestamp
                    /\ history[i].transfers = <<BaseRelease(c, d, d.creator)>>

\* C9: every settlement confirmation that succeeded sent acceptorOnSourceChain
\* exactly the record's baseAmount of the base asset and left the record settled; in
\* every state a confirmation for an unknown rfqId fails DepositNotFound and one for
\* a settled record fails DepositAlreadySettled.
C9_ConfirmationReleasesBaseAmount ==
    \A c \in Chains :
        /\ \A id \in DOMAIN crossChainDeposits[c] :
            LET d == crossChainDeposits[c][id]
            IN  /\ \A i \in Entries({"confirm"}, c, id) :
                        /\ history[i].transfers = <<BaseRelease(c, d, d.acceptorOnSourceChain)>>
                        /\ d.settled
                /\ d.settled =>
                        HandleSettlementConfirmation(World(c),
                            encodeSettlementConfirmation([rfqId |-> id])).err
                            = "DepositAlreadySettled"
        /\ LocalId \notin DOMAIN crossChainDeposits[c] =>
                HandleSettlementConfirmation(World(c),
                    encodeSettlementConfirmation([rfqId |-> LocalId])).err = "DepositNotFound"

\* C10: when, for an RFQ with a native base asset, the latest protocol step is the
\* delivery of the confirmation to the source and no reclaim came before it, then
\* the source released exactly baseAmount to acceptorOnSourceChain, the one accept on
\* the destination paid exactly quoteAmount to quoteTokenRecipient, and the records
\* on both chains are settled.
C10_EndToEndSettlement ==
    \A id \in CrossIds :
        LET src == SourceOf(id)
            dst == DestOf(id)
            d == DepositOf(crossChainDeposits[src], id)
            n == Len(history)
        IN  ( /\ d.baseToken = ETH
              /\ n > 0
              /\ n \in Entries({"confirm"}, src, id)
              /\ Entries({"reclaim"}, src, id) \cup Entries({"reclaim"}, dst, id) = {} ) =>
                /\ history[n].transfers = <<BaseRelease(src, d, d.acceptorOnSourceChain)>>
                /\ Cardinality(Entries({"accept"}, dst, id)) = 1
                /\ \A i \in Entries({"accept"}, dst, id) :
                        /\ history[i].transfers[1].asset = d.quoteToken
                        /\ history[i].transfers[1].to = d.quoteTokenRecipient
                        /\ history[i].transfers[1].amount = d.quoteAmount
                /\ d.settled
                /\ DepositOf(crossChainDeposits[dst], id).settled

(***************************************************************************)
(* Properties: expiry, authentication, acceptance                          *)
(***************************************************************************)
\* an acceptance of rfqId on chain c by bob, attaching what the record asks for
AcceptResult(c, id) ==
    acceptCrossChainRFQ(World(c), Msg("bob", AcceptNeeded(c, id)), id)

\* a reclaim of rfqId on chain c by the record's creator
ReclaimResult(c, id) ==
    reclaimCrossChainDeposit(World(c),
        Msg(DepositOf(crossChainDeposits[c], id).creator, 0), id)

\* C11: an acceptance of an unsettled record whose expiry has passed fails
\* ExpiredDeposit; on one chain, at one clock value, an acceptance and a reclaim of
\* the same rfqId never both pass; and once the creator has reclaimed on the source
\* chain, no acceptance of that rfqId succeeds on the destination any more.
C11_ExpirySeparatesAcceptFromReclaim ==
    \A id \in CrossIds :
        /\ \A c \in Chains :
            LET d == DepositOf(crossChainDeposits[c], id)
            IN  /\ (d.creator # ZERO /\ ~d.settled /\ now[c] > d.expiryTimestamp) =>
                        AcceptResult(c, id).err = "ExpiredDeposit"
                /\ d.creator # ZERO =>
                        ~(IsOk(AcceptResult(c, id)) /\ IsOk(ReclaimResult(c, id)))
        /\ \A i \in Entries({"reclaim"}, SourceOf(id), id) :
                \A j \in Entries({"accept"}, DestOf(id), id) : j < i

\* the deliveries of DeliveryInputs, and the same from the zero address
AuthInputs(c) ==
    DeliveryInputs(c) \cup {[in EXCEPT !.sourceAddress = ZERO] : in \in DeliveryInputs(c)}

\* C12: a delivery takes effect only when the caller is the relayer and the source
\* address is the non-zero registry entry for the source chain; any other delivery
\* fails UnauthorizedWormholeSource without marking its hash and without changing the
\* consumed set, the deposit table, the escrow ledger or a balance -- also when its
\* hash is already consumed, the source checks coming before the replay check.
C12_OnlyAuthenticatedDeliveries ==
    \A c \in Chains :
        \A in \in AuthInputs(c) :
            LET r == ReceiveResult(c, in)
            IN  /\ IsOk(r) => Authenticated(c, in)
                /\ ~Authenticated(c, in) =>
                    /\ r.err = "UnauthorizedWormholeSource"
                    /\ r.st.consumedMessages = consumedMessages[c]
                    /\ r.st.crossChainDeposits = crossChainDeposits[c]
                    /\ r.st.ethDeposits = ethDeposits[c]
                    /\ Effect(World(c), r) = World(c)

\* C12, its case: after a delivery took effect, the relayer presents a held message
\* under the consumed hash from an unregistered source
C12_UntrustedReplayPending ==
    \E c \in Chains :
        \E in \in AuthInputs(c) :
            /\ in.sender = Relayer
            /\ in.sourceAddress = "mallory"
            /\ in.hash \in consumedMessages[c]
            /\ Delivered(c, in.hash) # {}
            /\ in.payload \in {m.payload : m \in relay}
            /\ ReceiveResult(c, in).err = "UnauthorizedWormholeSource"

(***************************************************************************)
(* Properties: attached value, escrow, deposits                            *)
(***************************************************************************)
\* the call passes execute's parameter validation
ValidParams(in) ==
    validateExecuteParams(in.creator, in.baseToken, in.quoteToken, in.baseAmount,
                          in.quoteAmount) = "OK"

\* C13: an execute call succeeds only with an attached value equal to quoteAmount
\* when the quote asset is native and equal to zero when it is a token; a call with
\* valid parameters and a native quote asset whose value is below or above
\* quoteAmount fails ETHAmountMismatch, one with a token quote asset and a non-zero
\* value fails UnexpectedETHSent, and in both cases no asset moves and nothing
\* changes.
C13_AttachedValueExact ==
    \A in \in ExecuteInputs :
        CanCall(1, in) =>
            LET r == ExecuteResult(1, in)
                wrong == IF in.quoteToken = ETH THEN in.value # in.quoteAmount
                         ELSE in.value > 0
            IN  /\ IsOk(r) => ~wrong
                /\ (ValidParams(in) /\ wrong) =>
                    /\ r.err = IF in.quoteToken = ETH THEN "ETHAmountMismatch"
                               ELSE "UnexpectedETHSent"
                    /\ r.st.transfers = <<>>
                    /\ Effect(World(1), r) = World(1)

\* C13, its case: after an execute with a native quote asset has succeeded, the
\* caller can attach less or more than quoteAmount, or attach value to a token quote
C13_WrongValuesPending ==
    /\ last.op = "execute"
    /\ last.args.quoteToken = ETH
    /\ \E in \in ExecuteInputs :
        /\ CanCall(1, in) /\ ValidParams(in)
        /\ in.quoteToken = ETH /\ in.value > in.quoteAmount
        /\ ~IsOk(ExecuteResult(1, in))
    /\ \E in \in ExecuteInputs :
        /\ CanCall(1, in) /\ ValidParams(in)
        /\ in.quoteToken = ETH /\ in.value < in.quoteAmount
        /\ ~IsOk(ExecuteResult(1, in))
    /\ \E in \in ExecuteInputs :
        /\ CanCall(1, in) /\ ValidParams(in)
        /\ in.quoteToken # ETH /\ in.value > 0
        /\ ~IsOk(ExecuteResult(1, in))

\* C14: an execute call with a native base asset and a baseAmount above the escrow
\* entry of rfqId (an absent entry counting as zero) never succeeds and moves
\* neither leg; when its parameters and attached value are in order it fails
\* InsufficientETHDeposit before any transfer; and a successful execute with a native
\* base asset lowers the entry by exactly baseAmount.
C14_EscrowCoversBaseLeg ==
    \A in \in ExecuteInputs :
        (CanCall(1, in) /\ in.baseToken = ETH) =>
            LET r == ExecuteResult(1, in)
                recorded == Get(ethDeposits[1], in.rfqId)
            IN  /\ in.baseAmount > recorded =>
                    /\ ~IsOk(r)
                    /\ Effect(World(1), r) = World(1)
                    /\ (ValidParams(in)
                        /\ ValidateMsgValue(Msg(in.sender, in.value), in.quoteToken,
                                            in.quoteAmount) = "OK") =>
                            /\ r.err = "InsufficientETHDeposit"
                            /\ r.st.transfers = <<>>
                /\ IsOk(r) => Get(r.st.ethDeposits, in.rfqId) = recorded - in.baseAmount

\* C14, its case: an execute has drawn part of a native deposit, and a call asking
\* for more than what is left is refused
C14_PartlyDrawnEscrow ==
    /\ last.op = "execute"
    /\ last.args.baseToken = ETH
    /\ Get(ethDeposits[1], LocalId) > 0
    /\ \E in \in ExecuteInputs :
        /\ CanCall(1, in)
        /\ in.baseToken = ETH
        /\ in.baseAmount > Get(ethDeposits[1], LocalId)
        /\ ExecuteResult(1, in).err = "InsufficientETHDeposit"

\* the deposit calls tried in every state
DepositInputs == [sender : {"alice", "mallory"}, value : {0, 1, 2}, rfqId : {LocalId}]

\* the escrow calls that succeeded so far, of one kind, for rfqId
EscrowEntries(op, id) == {e \in escrowCalls : e.op = op /\ e.rfqId = id}

\* C15: in every state, for every party and amount A > 0 it can pay, a deposit of A
\* under rfqId followed by a withdrawal of rfqId by the same party succeeds, pays
\* back A, leaves the party's native balance as before the deposit and the escrow
\* entry at zero; a further withdrawal fails NoDepositFound.
C15_DepositWithdrawRoundTrip ==
    \A in \in DepositInputs :
        (in.value > 0 /\ CanCall(1, in)) =>
            LET r1 == depositForRFQ(World(1), Msg(in.sender, in.value), in.rfqId)
                r2 == withdrawDeposit(r1.st, Msg(in.sender, 0), in.rfqId)
                r3 == withdrawDeposit(r2.st, Msg(in.sender, 0), in.rfqId)
            IN  /\ IsOk(r1)
                /\ IsOk(r2)
                /\ r2.events[1].amount = in.value
                /\ r2.st.balance[in.sender] = balance[1][in.sender]
                /\ Get(r2.st.ethDeposits, in.rfqId) = 0
                /\ r3.err = "NoDepositFound"

\* C15, its case: a party has deposited and then withdrawn, and holds what it
\* started with
C15_RoundTripDone ==
    /\ last.op = "withdrawDeposit"
    /\ \E e \in EscrowEntries("depositForRFQ", last.args.rfqId) : e.sender = last.sender
    /\ Get(ethDeposits[1], last.args.rfqId) = 0
    /\ balance[1][last.sender] = InitialFunds

\* C16: a deposit with no value attached fails InvalidDepositAmount and changes
\* nothing; a deposit with value v > 0 sets the escrow entry of rfqId to exactly v,
\* whatever it held before.
C16_DepositOverwrites ==
    \A in \in DepositInputs :
        CanCall(1, in) =>
            LET r == depositForRFQ(World(1), Msg(in.sender, in.value), in.rfqId)
            IN  IF in.value = 0
                THEN /\ r.err = "InvalidDepositAmount"
                     /\ Effect(World(1), r) = World(1)
                ELSE /\ IsOk(r)
                     /\ Get(r.st.ethDeposits, in.rfqId) = in.value
                     /\ r.events = <<[name |-> "ETHDeposited", rfqId |-> in.rfqId,
                                      creator |-> in.sender, amount |-> in.value]>>

\* C16, its case: a second deposit under the same rfqId, of another amount, has
\* replaced the first
C16_SecondDepositMade ==
    /\ last.op = "depositForRFQ"
    /\ \E e \in EscrowEntries("depositForRFQ", last.args.rfqId) :
            e.transfers[1].amount # last.value
    /\ Get(ethDeposits[1], last.args.rfqId) = last.value

\* C17: a withdrawal of rfqId succeeds only for a party that deposited under rfqId.
C17_WithdrawOnlyByDepositor ==
    last.op = "withdrawDeposit" =>
        \E e \in EscrowEntries("depositForRFQ", last.args.rfqId) : e.sender = last.sender

\* C18: an execute with a native base asset releases the base leg only from a
\* deposit made under rfqId by the address passed as creator.
C18_ExecuteUsesCreatorsDeposit ==
    (last.op = "execute" /\ last.args.baseToken = ETH) =>
        \E e \in EscrowEntries("depositForRFQ", last.args.rfqId) :
            e.sender = last.args.creator

\* the values an acceptor may attach: from nothing to more than any record asks for
AcceptValues == 0 .. 3

\* C19: an acceptance of an existing, unsettled, unexpired record fails
\* InsufficientWormholeFee unless the attached value covers the return message cost,
\* plus quoteAmount when the quote asset is native.  On success with a native quote
\* the recipient is sent exactly quoteAmount and the relayer exactly the attached
\* value less quoteAmount, the contract's own native balance staying as it was; with
\* a token quote exactly quoteAmount tokens move from the acceptor to the recipient
\* and the relayer gets the whole attached value.
C19_AcceptPaymentRule ==
    \A c \in Chains :
        \A id \in DOMAIN crossChainDeposits[c] :
            \A value \in AcceptValues :
                LET d == crossChainDeposits[c][id]
                    r == acceptCrossChainRFQ(World(c), Msg("bob", value), id)
                    isEth == d.quoteToken = ETH
                    returnCost == quoteEVMDeliveryPrice(d.sourceChainId)
                    required == IF isEth THEN d.quoteAmount + returnCost ELSE returnCost
                    fee == IF isEth THEN value - d.quoteAmount ELSE value
                IN  (/\ d.creator # ZERO
                     /\ ~d.settled
                     /\ now[c] <= d.expiryTimestamp
                     /\ balance[c]["bob"] >= value) =>
                        /\ value < required =>
                            /\ r.err = "InsufficientWormholeFee"
                            /\ Effect(World(c), r) = World(c)
                        /\ IsOk(r) =>
                            /\ value >= required
                            /\ r.st.transfers =
                                 <<[asset |-> d.quoteToken,
                                    from |-> IF isEth THEN Settlement(c) ELSE "bob",
                                    to |-> d.quoteTokenRecipient, amount |-> d.quoteAmount],
                                   [asset |-> ETH, from |-> Settlement(c), to |-> Relayer,
                                    amount |-> fee]>>
                            /\ r.st.balance[Settlement(c)] = balance[c][Settlement(c)]
                            /\ r.st.balance[Relayer] = balance[c][Relayer] + fee
                            /\ r.st.balance["bob"] = balance[c]["bob"] - value
                            /\ isEth => r.st.balance[d.quoteTokenRecipient] =
                                            balance[c][d.quoteTokenRecipient] + d.quoteAmount
                            /\ ~isEth =>
                                /\ r.st.tokenBalance[d.quoteToken][d.quoteTokenRecipient] =
                                     tokenBalance[c][d.quoteToken][d.quoteTokenRecipient]
                                        + d.quoteAmount
                                /\ r.st.tokenBalance[d.quoteToken]["bob"] =
                                     tokenBalance[c][d.quoteToken]["bob"] - d.quoteAmount
                        /\ (value >= required /\ d.quoteTokenRecipient \in Users) => IsOk(r)

\* C19, its case: an acceptance with a native quote asset has just paid the recipient
\* and the relayer
C19_NativeQuoteAccepted ==
    /\ last.op = "acceptCrossChainRFQ"
    /\ Len(last.transfers) = 2
    /\ last.transfers[1].asset = ETH
    /\ last.value = last.transfers[1].amount + last.transfers[2].amount
    /\ \E c \in Chains, value \in AcceptValues :
        \E id \in DOMAIN crossChainDeposits[c] :
            /\ value > AcceptNeeded(c, id)
            /\ IsOk(acceptCrossChainRFQ(World(c), Msg("bob", value), id))

\* the successful acceptances of rfqId, on whatever chain, as positions in the history
Acceptances(id) == {i \in DOMAIN history : history[i].op = "accept" /\ history[i].rfqId = id}

\* C20: an acceptance fails DepositNotFound where no record of rfqId exists and
\* DepositAlreadySettled where the record is settled, and over the whole run at most
\* one acceptance per rfqId succeeds, so the quote leg is paid once and one
\* settlement confirmation is sent.
C20_AtMostOneAcceptance ==
    \A id \in CrossIds :
        /\ \A c \in Chains :
            LET d == DepositOf(crossChainDeposits[c], id)
            IN  /\ d.creator = ZERO => AcceptResult(c, id).err = "DepositNotFound"
                /\ (d.creator # ZERO /\ d.settled) =>
                        AcceptResult(c, id).err = "DepositAlreadySettled"
        /\ Cardinality(Acceptances(id)) <= 1

(***************************************************************************)
(* Properties: reclaim, initiation, registry, errors                       *)
(***************************************************************************)
\* C21: a reclaim fails DepositNotFound where no record of rfqId exists, fails
\* NotDepositCreator when the caller is not the record's creator, and fails
\* DepositAlreadySettled when the creator calls it on a settled record (the checks
\* being made in this order); each time the record, the escrow ledger and every
\* balance stay as they were.
C21_ReclaimAuthorization ==
    \A c \in Chains :
        \A id \in KnownIds :
            \A sender \in Users :
                LET d == DepositOf(crossChainDeposits[c], id)
                    r == reclaimCrossChainDeposit(World(c), Msg(sender, 0), id)
                IN  /\ d.creator = ZERO => r.err = "DepositNotFound"
                    /\ (d.creator # ZERO /\ sender # d.creator) =>
                            r.err = "NotDepositCreator"
                    /\ (d.creator = sender /\ d.settled) =>
                            r.err = "DepositAlreadySettled"
                    /\ ~IsOk(r) => Effect(World(c), r) = World(c)

\* C21, its case: after a reclaim went through, the creator's next one meets the
\* settled record and another party's meets the creator check
C21_ReclaimedRecord ==
    \E id \in CrossIds :
        LET c == SourceOf(id)
        IN  /\ Entries({"reclaim"}, c, id) # {}
            /\ ReclaimResult(c, id).err = "DepositAlreadySettled"
            /\ reclaimCrossChainDeposit(World(c), Msg("mallory", 0), id).err
                    = "NotDepositCreator"

\* C22: a reclaim succeeds only on the chain where initiateCrossChainDeposit made the
\* record, never on a record the deposit-notification handler stored.
C22_ReclaimOnlyOnSource ==
    \A i \in DOMAIN history :
        history[i].op = "reclaim" => history[i].chain = SourceOf(history[i].rfqId)

\* C23: an acceptance succeeds only on the destination chain of rfqId, on the record
\* the deposit-notification handler stored; the record initiateCrossChainDeposit made
\* on the source chain becomes settled only through a settlement confirmation or a
\* reclaim there.
C23_AcceptOnlyOnDestination ==
    /\ \A i \in DOMAIN history :
            history[i].op = "accept" => history[i].chain = DestOf(history[i].rfqId)
    /\ \A id \in CrossIds :
            DepositOf(crossChainDeposits[SourceOf(id)], id).settled =>
                Entries({"confirm", "reclaim"}, SourceOf(id), id) # {}

\* C24: for every deposit locked by initiateCrossChainDeposit, once the source
\* chain's clock has passed the expiry and neither a settlement confirmation nor a
\* reclaim has been processed there, the creator's reclaim goes through and pays back
\* the locked base asset, whatever else was called or delivered before.
C24_ReclaimEnabledAfterExpiry ==
    \A id \in CrossIds :
        LET c == SourceOf(id)
            d == DepositOf(crossChainDeposits[c], id)
            r == ReclaimResult(c, id)
        IN  (/\ d.creator # ZERO
             /\ now[c] > d.expiryTimestamp
             /\ Entries({"confirm", "reclaim"}, c, id) = {}) =>
                /\ IsOk(r)
                /\ r.st.transfers = <<BaseRelease(c, d, d.creator)>>

\* an initiation on chain c by alice with terms a, attaching value
InitiateResult(c, value, a) ==
    initiateCrossChainDeposit(World(c), Msg("alice", value), a.destChainId, a.baseToken,
        a.quoteToken, a.baseAmount, a.quoteAmount, a.expiryDuration,
        a.acceptorOnSourceChain, a.quoteTokenRecipient)

\* the well-formed terms with a native base asset, towards a registered destination
NativeTerms(c) ==
    {a \in GoodTerms(c) : a.baseToken = ETH /\ Trusted(World(c), a.destChainId) # ZERO}

\* C25 as stated: an initiation with a native base asset and any attached value below
\* baseAmount + the quoted delivery cost fails InsufficientWormholeFee and leaves the
\* nonce, the escrow ledger and the deposit table as they were.
C25_ShortValueAsStated ==
    \A c \in Chains :
        \A a \in NativeTerms(c) :
            \A value \in 0 .. (Needed(a) - 1) :
                LET r == InitiateResult(c, value, a)
                IN  /\ r.err = "InsufficientWormholeFee"
                    /\ Effect(World(c), r) = World(c)

\* C25: an initiation with a native base asset fails InvalidDepositAmount when the
\* attached value is below baseAmount, and InsufficientWormholeFee when it covers
\* baseAmount but not baseAmount + the quoted delivery cost; either way the nonce, the
\* escrow ledger, the deposit table and the balances stay as they were.
C25_ShortValueRejected ==
    \A c \in Chains :
        \A a \in NativeTerms(c) :
            \A value \in 0 .. (Needed(a) - 1) :
                LET r == InitiateResult(c, value, a)
                IN  /\ value < a.baseAmount => r.err = "InvalidDepositAmount"
                    /\ value >= a.baseAmount => r.err = "InsufficientWormholeFee"
                    /\ Effect(World(c), r) = World(c)

\* C25, its case: the destination is registered, nothing has been initiated yet, and
\* both kinds of short value are turned down
C25_ShortValuesPending ==
    \E a \in NativeTerms(1) :
        /\ Initiated = 0
        /\ InitiateResult(1, 0, a).err = "InvalidDepositAmount"
        /\ InitiateResult(1, a.baseAmount, a).err = "InsufficientWormholeFee"
        /\ IsOk(InitiateResult(1, Needed(a), a))

\* the terms initiateCrossChainDeposit turns down before it touches anything
Malformed(c, a) ==
    \/ a.destChainId = 0
    \/ a.destChainId \notin DOMAIN trustedContracts[c]
    \/ trustedContracts[c][a.destChainId] = ZERO
    \/ a.expiryDuration < MINIMUM_EXPIRY_DURATION
    \/ a.baseToken = ZERO \/ a.quoteToken = ZERO
    \/ a.baseAmount = 0 \/ a.quoteAmount = 0
    \/ a.acceptorOnSourceChain = ZERO \/ a.quoteTokenRecipient = ZERO

PreconditionErrors ==
    {"InvalidChainId", "Invalid token address", "Invalid amount", "ExpiryTooShort",
     "Invalid acceptor address", "Invalid recipient address"}

\* C26: an initiation fails with one of the precondition errors, and leaves the nonce,
\* the escrow ledger, the deposit table and every balance as they were and submits
\* nothing to the relayer, whenever the destination chain is zero or has no
\* registered contract, the expiry duration is below the 15 minute floor, a token is
\* the zero address, an amount is zero, or the acceptor or the recipient is the zero
\* address -- whatever value is attached.
C26_InitiatePreconditions ==
    \A c \in Chains :
        \A a \in GoodTerms(c) \cup BadTerms(c) :
            \A value \in {0, Needed(a) - 1, Needed(a)} :
                LET r == InitiateResult(c, value, a)
                IN  (Malformed(c, a) /\ balance[c]["alice"] >= value) =>
                        /\ r.err \in PreconditionErrors
                        /\ Effect(World(c), r) = World(c)
                        /\ Effect(World(c), r).outbox = {}

\* C26, its case: with one deposit initiated from chain 1, further initiations there
\* with a short expiry or a zero recipient are turned down, as is one from chain 2
\* while chain 2 has no contract registered for chain 1
C26_MalformedPending ==
    /\ Initiated = 1
    /\ Trusted(World(2), 1) = ZERO
    /\ \E a \in GoodTerms(2) : InitiateResult(2, Needed(a), a).err = "InvalidChainId"
    /\ \E a \in BadTerms(1) : InitiateResult(1, 1, a).err = "ExpiryTooShort"
    /\ \E a \in BadTerms(1) : InitiateResult(1, 1, a).err = "Invalid recipient address"

(***************************************************************************)
(* Several initiations: the same creator, towards the same chain, possibly *)
(* within one block                                                        *)
(***************************************************************************)
\* token-quoted terms for bob, and one malformed variant
RepeatTerms(c) ==
    {a \in GoodTerms(c) : a.quoteToken = QuoteTok /\ a.acceptorOnSourceChain = "bob"}
        \cup {a \in BadTerms(c) : a.baseAmount = 0}

InitiateAgain ==
    /\ Initiated < MaxInitiations
    /\ \E c \in Chains :
        \E a \in RepeatTerms(c) :
            \E value \in {Needed(a) - 1, Needed(a)} :
                InitiateCall(c, "alice", value, a)

NextRepeat ==
    \/ SetTrusted
    \/ InitiateAgain
    \/ Accept
    \/ Reclaim
    \/ Tick

SpecRepeat == Init /\ [][NextRepeat]_vars

\* a step in which an initiation on chain c towards chain d went through
InitiationStep(c, d) ==
    /\ last' # last
    /\ last'.op = "initiateCrossChainDeposit"
    /\ last'.chain = c
    /\ last'.args.destChainId = d

\* C27: the nonce a chain keeps for destination d goes up by exactly 1 in every step
\* in which an initiation towards d succeeds there and is left alone by every other
\* step and by every delivery the relayer could make; the rfqId of a successful
\* initiation is one no chain held a record for, so no two initiations share an rfqId
\* and none overwrites a record.
C27_NoncePerInitiation ==
    [][\A c \in Chains :
        /\ \A m \in relay :
                m.targetChain = c =>
                    Effect(World(c), receiveWormholeMessages(World(c), Msg(Relayer, 0),
                                m.payload, m.sourceAddress, m.sourceChain, 1)).chainNonces
                        = chainNonces[c]
        /\ \A d \in Chains :
            IF InitiationStep(c, d)
            THEN /\ Get(chainNonces'[c], d) = Get(chainNonces[c], d) + 1
                 /\ last'.events[1].rfqId \notin CrossIds
                 /\ last'.events[1].rfqId \in DOMAIN crossChainDeposits'[c]
                 /\ \A id \in DOMAIN crossChainDeposits[c] :
                        crossChainDeposits'[c][id] = crossChainDeposits[c][id]
            ELSE Get(chainNonces'[c], d) = Get(chainNonces[c], d)]_vars

\* C27, its case: the same creator has initiated twice from chain 1 towards chain 2
\* at the same time, and holds two records there
C27_TwoInitiationsAtOnce ==
    /\ Get(chainNonces[1], 2) = 2
    /\ \E id1, id2 \in DOMAIN crossChainDeposits[1] :
            /\ id1 # id2
            /\ crossChainDeposits[1][id1].creator = crossChainDeposits[1][id2].creator
            /\ crossChainDeposits[1][id1].expiryTimestamp
                    = crossChainDeposits[1][id2].expiryTimestamp

\* C28: the registry of a chain changes only in a step in which the owner's
\* setTrustedContract succeeds there; setTrustedContract from any other caller fails
\* and leaves everything as it was; and a delivery is processed only on a chain whose
\* registry holds an entry for the chain the message claims to come from.
C28_RegistryControl ==
    [][/\ \A c \in Chains :
            trustedContracts'[c] # trustedContracts[c] =>
                /\ last'.op = "setTrustedContract"
                /\ last'.chain = c
                /\ last'.sender = Owner
       /\ \A c \in Chains, sender \in Users :
            LET r == setTrustedContract(World(c), Msg(sender, 0), Other(c), sender)
            IN  /\ r.err = "OwnableUnauthorizedAccount"
                /\ Effect(World(c), r).trustedContracts = trustedContracts[c]
       /\ (last' # last /\ last'.op = "receiveWormholeMessages") =>
            Trusted(World(last'.chain), last'.args.sourceChain) # ZERO]_vars

\* C28, its case: a delivery has just been processed on a chain whose registry the
\* owner had set, while mallory's attempt to register a contract of their own fails
C28_DeliveryUnderSetRegistry ==
    /\ last.op = "receiveWormholeMessages"
    /\ Trusted(World(last.chain), last.args.sourceChain) = Settlement(last.args.sourceChain)
    /\ setTrustedContract(World(last.chain), Msg("mallory", 0), last.args.sourceChain,
                          "mallory").err = "OwnableUnauthorizedAccount"

\* what a call comes to: its error and the state it had reached when it ended
Outcome(r) == [err |-> r.err, st |-> r.st]

\* calls of the eight external entry points on chain c in the current state, by
\* callers that can pay what they attach
EntryCalls(c) ==
    {Outcome(depositForRFQ(World(c), Msg("mallory", v), id)) :
        v \in {x \in {0, 1} : balance[c]["mallory"] >= x}, id \in KnownIds}
    \cup {Outcome(withdrawDeposit(World(c), Msg(s, 0), id)) :
            s \in {"mallory", Rejector}, id \in KnownIds}
    \cup {Outcome(ExecuteResult(c, in)) :
            in \in {x \in ExecuteInputs : /\ x.sender = "bob" /\ CanCall(c, x)
                                          /\ x.value < 2 /\ x.baseAmount = 2
                                          /\ x.quoteAmount = 1}}
    \cup {Outcome(InitiateResult(c, v, a)) :
            v \in {x \in {0, 2} : balance[c]["alice"] >= x},
            a \in GoodTerms(c) \cup BadTerms(c)}
    \cup {Outcome(acceptCrossChainRFQ(World(c), Msg("bob", v), id)) :
            v \in {x \in AcceptValues : balance[c]["bob"] >= x}, id \in KnownIds}
    \cup {Outcome(reclaimCrossChainDeposit(World(c), Msg(s, 0), id)) :
            s \in {"alice", "mallory"}, id \in KnownIds}
    \cup {Outcome(ReceiveResult(c, in)) : in \in {x \in DeliveryInputs(c) : x.hash = 1}}
    \cup {Outcome(setTrustedContract(World(c), Msg(s, 0), d, a)) :
            s \in {Owner, "mallory"}, d \in {0, Other(c)}, a \in {ZERO, Settlement(Other(c))}}

TransferRefused(r) == r.err \in {"ETHTransferFailed", "WithdrawalFailed"}

\* chain c as it would stand had the creator and the quote recipient of rfqId's
\* record been the contract Rejector
HostileRecord(c, id) ==
    [World(c) EXCEPT !.crossChainDeposits =
        SetDeposit(@, id, [DepositOf(@, id) EXCEPT !.creator = Rejector,
                                                   !.quoteTokenRecipient = Rejector])]

\* an authenticated delivery of the settlement confirmation of rfqId on chain c
ConfirmResult(st, c, id, h) ==
    receiveWormholeMessages(st, Msg(Relayer, 0), encodeSettlementConfirmation([rfqId |-> id]),
                            Settlement(Other(c)), Other(c), h)

\* C30: when withdrawDeposit, execute with a native base, the settlement-confirmation
\* handler, reclaimCrossChainDeposit or acceptCrossChainRFQ hands control to the
\* recipient of a native transfer, the guard is already written: the escrow entry is
\* cleared or reduced by the amount being sent, the record is marked settled.  The
\* same operation for the same rfqId, run in that state, fails (NoDepositFound,
\* DepositAlreadySettled, or MessageAlreadyProcessed for a delivery under a consumed
\* hash) or, for execute, releases no more than what is left of the entry.
C30_CommitBeforeTransfer ==
    \A c \in Chains :
        \A id \in CrossIds :
            LET w == withdrawDeposit(World(c), Msg(Rejector, 0), id)
                x == ConfirmResult(World(c), c, id, 1)
                rc == reclaimCrossChainDeposit(HostileRecord(c, id), Msg(Rejector, 0), id)
                a == acceptCrossChainRFQ(HostileRecord(c, id), Msg("bob", 2), id)
            IN  /\ TransferRefused(w) =>
                    /\ Get(w.st.ethDeposits, id) = 0
                    /\ withdrawDeposit(w.st, Msg("mallory", 0), id).err = "NoDepositFound"
                /\ \A b \in {1, 2} :
                    LET e == execute(World(c), Msg(Rejector, 0), id, "alice", ETH,
                                     QuoteTok, b, 1)
                    IN  TransferRefused(e) =>
                            /\ Get(e.st.ethDeposits, id) = Get(ethDeposits[c], id) - b
                            /\ \A b2 \in {1, 2} :
                                IsOk(execute(e.st, Msg("mallory", 1), id, "alice", ETH,
                                             ETH, b2, 1))
                                    => b + b2 <= Get(ethDeposits[c], id)
                /\ TransferRefused(x) =>
                    /\ DepositOf(x.st.crossChainDeposits, id).settled
                    /\ Get(x.st.ethDeposits, id) = 0
                    /\ \A h \in Hashes :
                            ConfirmResult(x.st, c, id, h).err
                                \in {"DepositAlreadySettled", "MessageAlreadyProcessed"}
                    /\ HandleSettlementConfirmation(x.st,
                            encodeSettlementConfirmation([rfqId |-> id])).err
                                = "DepositAlreadySettled"
                /\ TransferRefused(rc) =>
                    /\ DepositOf(rc.st.crossChainDeposits, id).settled
                    /\ Get(rc.st.ethDeposits, id) = 0
                    /\ reclaimCrossChainDeposit(rc.st, Msg(Rejector, 0), id).err
                            = "DepositAlreadySettled"
                /\ TransferRefused(a) =>
                    /\ DepositOf(a.st.crossChainDeposits, id).settled
                    /\ acceptCrossChainRFQ(a.st, Msg("bob", 2), id).err
                            = "DepositAlreadySettled"

\* C30, its case: bob has accepted an RFQ whose base asset is native and whose
\* acceptor on the source chain is a contract, the confirmation's transfer to it is
\* refused there, and a withdrawal by the contract reaches its transfer too
C30_TransfersToContractPending ==
    \E id \in CrossIds :
        LET c == SourceOf(id)
        IN  /\ Entries({"accept"}, DestOf(id), id) # {}
            /\ DepositOf(crossChainDeposits[c], id).acceptorOnSourceChain = Rejector
            /\ TransferRefused(ConfirmResult(World(c), c, id, 1))
            /\ TransferRefused(withdrawDeposit(World(c), Msg(Rejector, 0), id))
            /\ TransferRefused(execute(World(c), Msg(Rejector, 0), id, "alice", ETH,
                                       QuoteTok, 1, 1))

(***************************************************************************)
(* Properties: records, escrow, solvency                                   *)
(***************************************************************************)
\* C31: the creator, tokens, amounts, chains, acceptor, recipient and expiry of a
\* record never change once it is stored, and once the record is settled none of its
\* fields changes again, whatever is called or delivered.
C31_RecordImmutable ==
    [][\A c \in Chains :
        \A id \in DOMAIN crossChainDeposits[c] :
            /\ id \in DOMAIN crossChainDeposits'[c]
            /\ [crossChainDeposits'[c][id] EXCEPT !.settled = FALSE]
                    = [crossChainDeposits[c][id] EXCEPT !.settled = FALSE]
            /\ crossChainDeposits[c][id].settled =>
                    crossChainDeposits'[c][id] = crossChainDeposits[c][id]]_vars

\* C32: from a successful initiation with a native base asset until its record is
\* settled, the escrow entry of the rfqId on the source chain equals the record's
\* baseAmount: no depositForRFQ, withdrawDeposit or execute naming the rfqId changes
\* it.
C32_LockedEntryUntouched ==
    \A id \in CrossIds :
        LET c == SourceOf(id)
            d == DepositOf(crossChainDeposits[c], id)
        IN  (d.creator # ZERO /\ d.baseToken = ETH /\ ~d.settled) =>
                Get(ethDeposits[c], id) = d.baseAmount

\* C33: whenever a settlement confirmation has been processed for rfqId on its source
\* chain, an acceptance of rfqId succeeded before it on the destination chain, paying
\* the quote recipient quoteAmount, and the destination record is settled.
C33_ReleaseFollowsAcceptance ==
    \A id \in CrossIds :
        \A i \in Entries({"confirm"}, SourceOf(id), id) :
            LET dst == DepositOf(crossChainDeposits[DestOf(id)], id)
            IN  /\ \E j \in Entries({"accept"}, DestOf(id), id) :
                        /\ j < i
                        /\ history[j].transfers[1].to = dst.quoteTokenRecipient
                        /\ history[j].transfers[1].amount = dst.quoteAmount
                /\ dst.settled

\* the sum of a chain's escrow entries
LedgerSum(c) ==
    LET RECURSIVE Sum(_)
        Sum(S) == IF S = {} THEN 0
                  ELSE LET x == CHOOSE y \in S : TRUE
                       IN  ethDeposits[c][x] + Sum(S \ {x})
    IN  Sum(DOMAIN ethDeposits[c])

\* C34: in every reachable state the contract's native balance on a chain is at
\* least the sum of that chain's escrow entries.
C34_NativeSolvency ==
    \A c \in Chains : balance[c][Settlement(c)] >= LedgerSum(c)

\* C34, its case: a chain holds a locked cross-chain deposit, another party has used
\* the escrow entry points on it, and the ledger is not empty
C34_LedgerInUse ==
    \E c \in Chains :
        /\ crossChainDeposits[c] # Empty
        /\ \E e \in escrowCalls : e.chain = c
        /\ LedgerSum(c) > 0

(***************************************************************************)
(* Token-based deposits initiated from both chains                         *)
(***************************************************************************)
TokenTerms(c) ==
    {a \in GoodTerms(c) : /\ a.baseToken = BaseTok /\ a.quoteToken = QuoteTok
                          /\ a.acceptorOnSourceChain = "bob"}

InitiateToken ==
    /\ Initiated < MaxInitiations
    /\ \E c \in Chains :
        \E a \in TokenTerms(c) :
            \E value \in {Needed(a) - 1, Needed(a)} :
                InitiateCall(c, "alice", value, a)

\* the relayer delivers a submitted message to its target, once per delivery hash
DeliverOnce ==
    \E m \in relay :
        /\ m.targetChain \in Chains
        /\ m.targetAddress = Settlement(m.targetChain)
        /\ ReceiveCall(m.targetChain, Relayer, m.payload, m.sourceAddress, m.sourceChain, 1)

NextToken ==
    \/ SetTrusted
    \/ InitiateToken
    \/ DeliverOnce
    \/ Reclaim
    \/ Tick

SpecToken == Init /\ [][NextToken]_vars

\* the base tokens T locked on chain c: baseAmount over the unsettled records that
\* initiateCrossChainDeposit made there
LockedTokens(c, T) ==
    LET ids == {id \in DOMAIN crossChainDeposits[c] :
                    /\ SourceOf(id) = c
                    /\ crossChainDeposits[c][id].baseToken = T
                    /\ ~crossChainDeposits[c][id].settled}
        RECURSIVE Sum(_)
        Sum(S) == IF S = {} THEN 0
                  ELSE LET x == CHOOSE y \in S : TRUE
                       IN  crossChainDeposits[c][x].baseAmount + Sum(S \ {x})
    IN  Sum(ids)

\* C35: in every reachable state, for every token T, the contract's balance of T on
\* a chain is at least the baseAmount of all unsettled records initiated on that
\* chain with base token T.
C35_TokenSolvency ==
    \A c \in Chains :
        \A T \in Tokens :
            tokenBalance[c][T][Settlement(c)] >= LockedTokens(c, T)

\* C36: a successful initiation stores under the new rfqId a record with creator =
\* caller, settled = false, expiryTimestamp = now + expiryDuration and the call's
\* terms; locks exactly baseAmount (native: the escrow entry of the rfqId is
\* baseAmount, the contract's native balance grows by baseAmount and the rest of the
\* attached value goes to the relayer; token: baseAmount moves from the caller to the
\* contract and the whole attached value goes to the relayer); and submits exactly
\* one deposit notification, carrying the rfqId, creator, tokens, amounts, expiry,
\* acceptor and recipient, for the contract registered for the destination chain.
C36_InitiationEffects ==
    \A c \in Chains :
        \A a \in GoodTerms(c) :
            \A value \in {Needed(a), Needed(a) + 1} :
                LET r == InitiateResult(c, value, a)
                    isEth == a.baseToken = ETH
                    fee == IF isEth THEN value - a.baseAmount ELSE value
                    this == Settlement(c)
                    id == Keccak(c, a.destChainId, "alice", Get(chainNonces[c], a.destChainId),
                                 now[c])
                IN  (balance[c]["alice"] >= value /\ IsOk(r)) =>
                        /\ r.rfqId = id
                        /\ DepositOf(r.st.crossChainDeposits, id) =
                            [creator |-> "alice", baseToken |-> a.baseToken,
                             quoteToken |-> a.quoteToken, baseAmount |-> a.baseAmount,
                             quoteAmount |-> a.quoteAmount, sourceChainId |-> c,
                             destChainId |-> a.destChainId,
                             expiryTimestamp |-> now[c] + a.expiryDuration,
                             settled |-> FALSE,
                             acceptorOnSourceChain |-> a.acceptorOnSourceChain,
                             quoteTokenRecipient |-> a.quoteTokenRecipient]
                        /\ Get(r.st.ethDeposits, id) = (IF isEth THEN a.baseAmount ELSE 0)
                        /\ r.st.balance[this] =
                                balance[c][this] + (IF isEth THEN a.baseAmount ELSE 0)
                        /\ r.st.balance[Relayer] = balance[c][Relayer] + fee
                        /\ r.st.balance["alice"] = balance[c]["alice"] - value
                        /\ ~isEth =>
                            /\ r.st.tokenBalance[a.baseToken][this] =
                                    tokenBalance[c][a.baseToken][this] + a.baseAmount
                            /\ r.st.tokenBalance[a.baseToken]["alice"] =
                                    tokenBalance[c][a.baseToken]["alice"] - a.baseAmount
                        /\ Cardinality(r.st.outbox) = 1
                        /\ \A m \in r.st.outbox :
                            /\ m.targetChain = a.destChainId
                            /\ m.targetAddress = trustedContracts[c][a.destChainId]
                            /\ getMessageType(m.payload) = DEPOSIT_NOTIFICATION
                            /\ decodeDepositNotification(m.payload) =
                                [rfqId |-> id, creator |-> "alice",
                                 baseToken |-> a.baseToken, quoteToken |-> a.quoteToken,
                                 baseAmount |-> a.baseAmount, quoteAmount |-> a.quoteAmount,
                                 expiryTimestamp |-> now[c] + a.expiryDuration,
                                 acceptorOnSourceChain |-> a.acceptorOnSourceChain,
                                 quoteTokenRecipient |-> a.quoteTokenRecipient]

\* C36, its case: an initiation has just gone through at a time other than 0, and a
\* further one, native or token based, would go through as well
C36_InitiatedLater ==
    /\ last.op = "initiateCrossChainDeposit"
    /\ now[last.chain] > 0
    /\ \E a \in GoodTerms(last.chain) :
            /\ a.baseToken = BaseTok
            /\ IsOk(InitiateResult(last.chain, Needed(a) + 1, a))

\* the submitted deposit notifications addressed to chain c
Notifications(c) ==
    {m \in relay : /\ m.targetChain = c
                   /\ m.targetAddress = Settlement(c)
                   /\ getMessageType(m.payload) = DEPOSIT_NOTIFICATION}

\* C37: an authenticated delivery of a deposit notification under a hash not yet
\* consumed fails ExpiredDeposit, storing nothing, when the chain's clock is past the
\* expiry the message carries; otherwise it stores under the carried rfqId a record
\* with settled = false whose terms are those of the record initiated on the source
\* chain, whose sourceChainId is the source chain of the delivery and whose
\* destChainId is this chain.
C37_NotificationStored ==
    \A c \in Chains :
        \A m \in Notifications(c) :
            \A h \in Hashes \ consumedMessages[c] :
                LET r == receiveWormholeMessages(World(c), Msg(Relayer, 0), m.payload,
                                                 m.sourceAddress, m.sourceChain, h)
                    id == m.payload[2]
                    src == crossChainDeposits[m.sourceChain][id]
                IN  IsTrustedSource(World(c), m.sourceAddress, m.sourceChain) =>
                        IF now[c] > src.expiryTimestamp
                        THEN /\ r.err = "ExpiredDeposit"
                             /\ Effect(World(c), r) = World(c)
                        ELSE /\ IsOk(r)
                             /\ r.st.crossChainDeposits[id] =
                                    [src EXCEPT !.settled = FALSE,
                                                !.sourceChainId = m.sourceChain,
                                                !.destChainId = c]
                             /\ h \in r.st.consumedMessages

\* C37, its case: a notification was stored on the destination, whose clock has since
\* passed the expiry, so that a further delivery of it is turned down
C37_LateNotificationPending ==
    \E c \in Chains :
        \E m \in Notifications(c) :
            /\ Entries({"notify"}, c, m.payload[2]) # {}
            /\ \E h \in Hashes \ consumedMessages[c] :
                    receiveWormholeMessages(World(c), Msg(Relayer, 0), m.payload,
                        m.sourceAddress, m.sourceChain, h).err = "ExpiredDeposit"

\* calls of execute with any combination of a zero token, a zero amount, a zero
\* creator and a wrong attached value
FaultyExecuteInputs ==
    [sender : {"bob"}, value : {0, 1}, rfqId : {LocalId},
     creator : {"alice", ZERO}, baseToken : {ETH, BaseTok, ZERO},
     quoteToken : {ETH, QuoteTok, ZERO}, baseAmount : {0, 2}, quoteAmount : {0, 1}]

\* the attached value execute requires for the quote leg
ValueExpected(in) == IF in.quoteToken = ETH THEN in.quoteAmount ELSE 0

\* C39: execute checks the token addresses, then the amounts, then the creator, then
\* the attached value, and the first check that fails names the error whatever else
\* is wrong with the call; a call stopped by one of these checks has made no
\* transfer and leaves the state as it was.
C39_ValidationPrecedence ==
    \A c \in Chains :
        \A in \in FaultyExecuteInputs :
            LET r == ExecuteResult(c, in)
                stopped == /\ r.st = Payable(World(c), Msg(in.sender, in.value))
                           /\ r.st.transfers = <<>>
                           /\ Effect(World(c), r) = World(c)
            IN  CanCall(c, in) =>
                    IF in.baseToken = ZERO \/ in.quoteToken = ZERO
                    THEN r.err = "Invalid token address" /\ stopped
                    ELSE IF in.baseAmount = 0 \/ in.quoteAmount = 0
                    THEN r.err = "Invalid amount" /\ stopped
                    ELSE IF in.creator = ZERO
                    THEN r.err = "Invalid creator address" /\ stopped
                    ELSE IF in.value # ValueExpected(in)
                    THEN r.err \in {"ETHAmountMismatch", "UnexpectedETHSent"} /\ stopped
                    ELSE r.err \notin {"Invalid token address", "Invalid amount",
                                       "Invalid creator address", "ETHAmountMismatch",
                                       "UnexpectedETHSent"}

\* C39, its case: after a trade was executed, a call with a zero token and a zero
\* amount is turned down for the token, and a call with a zero amount, a zero creator
\* and a wrong attached value is turned down for the amount
C39_SeveralFaultsAtOnce ==
    /\ last.op = "execute"
    /\ \E c \in Chains :
        \E in, jn \in FaultyExecuteInputs :
            /\ CanCall(c, in) /\ CanCall(c, jn)
            /\ in.baseToken = ZERO /\ in.baseAmount = 0
            /\ ExecuteResult(c, in).err = "Invalid token address"
            /\ jn.baseToken # ZERO /\ jn.quoteToken # ZERO /\ jn.quoteAmount = 0
            /\ jn.creator = ZERO /\ jn.value # ValueExpected(jn)
            /\ ExecuteResult(c, jn).err = "Invalid amount"

\* C38: the settlement-confirmation handler takes the record's expiry into account:
\* a confirmation that has just been processed on a chain was processed no later
\* than the expiry of the record it settles.
C38_ConfirmationWithinExpiry ==
    (/\ last.op = "receiveWormholeMessages"
     /\ last.args.type = SETTLEMENT_CONFIRMATION) =>
        now[last.chain] <= crossChainDeposits[last.chain][last.args.rfqId].expiryTimestamp

(***************************************************************************)
(* ReentrancyGuard.  Six entry points carry the nonReentrant modifier; the *)
(* guard is set while one of them runs and clear between transactions, so  *)
(* the calls of the actions above all find it clear.  A nested call is a   *)
(* call made by the payee of a native transfer, or by the relayer inside   *)
(* sendPayloadToEvm, in the state the outer call had reached.              *)
(***************************************************************************)
\* a modifier that lets nested calls through
nonReentrant_off(entered, st, r) == r

\* the modifier: with the guard set the body does not run
nonReentrant(entered, st, r) ==
    IF entered THEN Fail("ReentrancyGuardReentrantCall", st) ELSE r

\* the sum of the escrow entries of a ledger
Total(f) ==
    LET RECURSIVE Sum(_)
        Sum(S) == IF S = {} THEN 0
                  ELSE LET x == CHOOSE y \in S : TRUE
                       IN  f[x] + Sum(S \ {x})
    IN  Sum(DOMAIN f)

\* guarded calls on chain c in the current state, one set per entry point
OuterCalls(c) ==
    {[r |-> withdrawDeposit(World(c), Msg(s, 0), id), rfqId |-> id, escrow |-> TRUE] :
        s \in {"mallory", Rejector}, id \in KnownIds}
    \cup {[r |-> execute(World(c), Msg("mallory", 1), id, "mallory", ETH, ETH, 2, 1),
           rfqId |-> id, escrow |-> FALSE] :
            id \in {x \in KnownIds : balance[c]["mallory"] >= 1}}
    \cup {[r |-> ReclaimResult(c, id), rfqId |-> id, escrow |-> TRUE] : id \in CrossIds}
    \cup {[r |-> ConfirmResult(World(c), c, id, 1), rfqId |-> id, escrow |-> TRUE] :
            id \in CrossIds}
    \cup {[r |-> AcceptResult(c, id), rfqId |-> id, escrow |-> FALSE] :
            id \in {x \in CrossIds : balance[c]["bob"] >= AcceptNeeded(c, x)}}
    \cup {[r |-> InitiateResult(c, Needed(a), a), rfqId |-> LocalId, escrow |-> FALSE] :
            a \in {x \in GoodTerms(c) : /\ x.acceptorOnSourceChain = "bob"
                                         /\ balance[c]["alice"] >= Needed(x)}}

\* the states in which an external address holds control during one of those calls:
\* the payee of the call's last native transfer, which is the call's last change of
\* state, or the contract Rejector while it turns a payment down
Handoffs(c) ==
    {[st |-> o.r.st, rfqId |-> o.rfqId, escrow |-> o.escrow,
      payee |-> IF IsOk(o.r) THEN o.r.st.transfers[Len(o.r.st.transfers)].to ELSE Rejector] :
        o \in {x \in OuterCalls(c) :
                \/ TransferRefused(x.r)
                \/ /\ IsOk(x.r)
                   /\ x.r.st.transfers # <<>>
                   /\ x.r.st.transfers[Len(x.r.st.transfers)].asset = ETH}}

\* the calls of the six guarded entry points that `who` makes in state st of chain c
\* while the guard is set
NestedCalls(st, c, who) ==
    {nonReentrant(TRUE, st, withdrawDeposit(st, Msg(who, 0), id)) : id \in KnownIds}
    \cup {nonReentrant(TRUE, st, execute(st, Msg(who, 0), id, "alice", BaseTok, QuoteTok, 1, 1)) :
            id \in KnownIds}
    \cup {nonReentrant(TRUE, st,
            initiateCrossChainDeposit(st, Msg(who, v), a.destChainId, a.baseToken,
                a.quoteToken, a.baseAmount, a.quoteAmount, a.expiryDuration,
                a.acceptorOnSourceChain, a.quoteTokenRecipient)) :
            a \in GoodTerms(c), v \in {x \in {1, 3} : st.balance[who] >= x}}
    \cup {nonReentrant(TRUE, st, reclaimCrossChainDeposit(st, Msg(who, 0), id)) :
            id \in KnownIds}
    \cup {nonReentrant(TRUE, st, ConfirmResult(st, c, id, h)) :
            id \in KnownIds, h \in Hashes}
    \cup {nonReentrant(TRUE, st, acceptCrossChainRFQ(st, Msg(who, v), id)) :
            id \in KnownIds, v \in {x \in {1, 2} : st.balance[who] >= x}}

=============================================================================
